---- MODULE Spec2Model ----
(***************************************************************************)
(* The check-in routes of the trading-discipline backend                   *)
(* (src/models/User.js lines 464-790, the Express router of /api/checkin)  *)
(* over the CheckIn collection (src/models/CheckIn.js).                    *)
(*                                                                         *)
(* Time is counted in whole hours since 1970-01-01T00:00Z.  A JavaScript   *)
(* string is a sequence of character codes, so that MongoDB's and          *)
(* JavaScript's lexicographic comparison of date strings is the comparison *)
(* of these sequences; the empty sequence stands for every falsy request   *)
(* field (undefined, null, "").  Documents carry no _id and no createdAt:  *)
(* the collection is a bag of documents.                                   *)
(***************************************************************************)
EXTENDS Integers, Sequences, FiniteSets, Bags

VARIABLES store, req, now, tz, sub, users, codes, daily, issued, ureq, settings, sreq, ids

vars == <<store, req, now, tz, sub, users, codes, daily, issued, ureq, settings, sreq, ids>>

\* the state outside the check-in routes: the milliseconds of the clock past
\* the hour, the User collection, the verification codes of the SMS utility,
\* the DailyRecord collection, the tokens the server has handed out, and the
\* requests to the user routes in flight
others == <<sub, users, codes, daily, issued, ureq, settings, sreq, ids>>

\* the UserSettings collection, the requests to the settings and daily routes
\* in flight, and the next identifier of an item (an ObjectId is never reused)
docs == <<settings, sreq, ids>>

\* no settings document, no such request, no identifier given out yet
NoDocs == settings = {} /\ sreq = <<>> /\ ids = 1

(***************************************************************************)
(* Bounds of the model.                                                    *)
(***************************************************************************)
MaxReq == 2
MaxHist == 3
WindowDays == 4
MaxAhead == 1

Users == {1, 2}
Slots == 1..MaxReq

(***************************************************************************)
(* Characters and strings.                                                 *)
(***************************************************************************)
Dash == <<45>>

Digit(n) == 48 + n

RECURSIVE DecDigits(_)
DecDigits(n) == IF n < 10 THEN <<Digit(n)>> ELSE DecDigits(n \div 10) \o <<Digit(n % 10)>>

\* String(n) of an integer
NumStr(n) == IF n < 0 THEN Dash \o DecDigits(0 - n) ELSE DecDigits(n)

RECURSIVE PadStart(_, _)
PadStart(s, len) == IF Len(s) >= len THEN s ELSE PadStart(<<Digit(0)>> \o s, len)

RECURSIVE StrLess(_, _)
StrLess(a, b) ==
    IF b = <<>> THEN FALSE
    ELSE IF a = <<>> THEN TRUE
    ELSE IF Head(a) # Head(b) THEN Head(a) < Head(b)
    ELSE StrLess(Tail(a), Tail(b))

StrLeq(a, b) == a = b \/ StrLess(a, b)

StartsWith(s, p) == Len(s) >= Len(p) /\ SubSeq(s, 1, Len(p)) = p

(***************************************************************************)
(* The calendar of JavaScript's Date (proleptic Gregorian, UTC).           *)
(***************************************************************************)
DaysFromCivil(y, m, d) ==
    LET yy == IF m <= 2 THEN y - 1 ELSE y
        era == yy \div 400
        yoe == yy - era * 400
        mp == IF m > 2 THEN m - 3 ELSE m + 9
        doy == (153 * mp + 2) \div 5 + d - 1
        doe == yoe * 365 + yoe \div 4 - yoe \div 100 + doy
    IN era * 146097 + doe - 719468

CivilFromDays(z) ==
    LET zz == z + 719468
        era == zz \div 146097
        doe == zz - era * 146097
        yoe == (doe - doe \div 1460 + doe \div 36524 - doe \div 146096) \div 365
        doy == doe - (365 * yoe + yoe \div 4 - yoe \div 100)
        mp == (5 * doy + 2) \div 153
        d == doy - (153 * mp + 2) \div 5 + 1
        m == IF mp < 10 THEN mp + 3 ELSE mp - 9
    IN [year |-> IF m <= 2 THEN yoe + era * 400 + 1 ELSE yoe + era * 400,
        month |-> m, day |-> d]

\* the time value of a date-time given in UTC
TimeOf(y, m, d, h) == DaysFromCivil(y, m, d) * 24 + h

\* "YYYY-MM-DD"
FormatDate(y, m, d) ==
    PadStart(NumStr(y), 4) \o Dash \o PadStart(NumStr(m), 2)
        \o Dash \o PadStart(NumStr(d), 2)

\* t.toISOString().slice(0, 10): the UTC calendar date of time value t
ToISODate(t) ==
    LET c == CivilFromDays(t \div 24)
    IN FormatDate(c.year, c.month, c.day)

RECURSIVE ParseDigits(_, _)
ParseDigits(s, acc) ==
    IF s = <<>> THEN acc ELSE ParseDigits(Tail(s), acc * 10 + (Head(s) - Digit(0)))

\* new Date("YYYY-MM-DD"): a date-only ISO string is UTC midnight of that date
ParseISODate(s) ==
    TimeOf(ParseDigits(SubSeq(s, 1, 4), 0), ParseDigits(SubSeq(s, 6, 7), 0),
           ParseDigits(SubSeq(s, 9, 10), 0), 0)

(***************************************************************************)
(* The server's time zone (the TZ of the Node process): the local-time     *)
(* accessors getFullYear, getMonth, getDate and setDate read and write     *)
(* local time, toISOString writes UTC.  Europe/Berlin is UTC+1 with        *)
(* daylight saving time (UTC+2) from 2024-03-31T01:00Z to 2024-10-27T01:00Z.*)
(***************************************************************************)
Zones == {"UTC", "Asia/Shanghai", "Europe/Berlin"}

DstStart == TimeOf(2024, 3, 31, 1)
DstEnd == TimeOf(2024, 10, 27, 1)

\* LocalTZA(t, true): the offset in effect at the UTC time value t
Offset(zone, t) ==
    CASE zone = "UTC" -> 0
      [] zone = "Asia/Shanghai" -> 8
      [] zone = "Europe/Berlin" -> IF DstStart <= t /\ t < DstEnd THEN 2 ELSE 1

\* LocalTZA(l, false): the offset in effect at the local time l; a local time
\* that is skipped or repeated at a transition takes the offset before it
OffsetLocal(zone, l) ==
    CASE zone = "UTC" -> 0
      [] zone = "Asia/Shanghai" -> 8
      [] zone = "Europe/Berlin" ->
            IF DstStart + 2 <= l /\ l < DstEnd + 2 THEN 2 ELSE 1

LocalTime(zone, t) == t + Offset(zone, t)

UTCTime(zone, l) == l - OffsetLocal(zone, l)

\* t.getFullYear(), t.getMonth() + 1
GetFullYear(zone, t) == CivilFromDays(LocalTime(zone, t) \div 24).year

GetMonth1(zone, t) == CivilFromDays(LocalTime(zone, t) \div 24).month

\* d = new Date(t); d.setDate(d.getDate() - 1): the local calendar day before,
\* at the same local time of day
SetDatePrev(zone, t) == UTCTime(zone, LocalTime(zone, t) - 24)

(***************************************************************************)
(* The CheckIn collection and its unique index on (userId, date).          *)
(***************************************************************************)
CheckInTypes == {"completed", "incomplete"}

SameKey(a, b) == a.userId = b.userId /\ a.date = b.date

\* the documents of a collection that satisfy a query, with their copies
Matching(coll, Q(_)) == [r \in {x \in DOMAIN coll : Q(x)} |-> coll[r]]

\* CheckIn.findOne({userId, date})
FindOne(coll, u, date) ==
    LET Q(r) == r.userId = u /\ r.date = date
    IN Matching(coll, Q)

\* CheckIn.find({userId})
FindByUser(coll, u) ==
    LET Q(r) == r.userId = u
    IN Matching(coll, Q)

\* the range query without the user
FindRangeAnyUser(coll, u, lo, hi) ==
    LET Q(r) == StrLeq(lo, r.date) /\ StrLeq(r.date, hi)
    IN Matching(coll, Q)

\* CheckIn.find({userId, date: {$gte: lo, $lte: hi}})
FindRange(coll, u, lo, hi) ==
    LET Q(r) == r.userId = u /\ StrLeq(lo, r.date) /\ StrLeq(r.date, hi)
    IN Matching(coll, Q)

\* no unique index at all
IndexAbsent(coll, doc) == FALSE

\* a unique index on the wrong pair of fields
IndexOnUserAndType(coll, doc) ==
    \E r \in DOMAIN coll : r.userId = doc.userId /\ r.type = doc.type

\* the unique index {userId: 1, date: 1}: an insert of a second document with
\* the same key is refused with error code 11000
IndexRefuses(coll, doc) == \E r \in DOMAIN coll : SameKey(r, doc)

\* the schema's validation of a document at save()
SchemaAccepts(doc) == doc.type \in CheckInTypes

\* a save that leaves the new document alone in the collection
InsertAlone(coll, doc) == SetToBag({doc})

\* checkIn.save() of a new document
Insert(coll, doc) == coll (+) SetToBag({doc})

\* records.length, records.filter(p).length
Count(found) == BagCardinality(found)

CountIf(found, P(_)) == BagCardinality(Matching(found, P))

\* .sort({date: dir}): the documents as a list ordered by date
RECURSIVE SortByDate(_, _)
SortByDate(found, ascending) ==
    IF DOMAIN found = {} THEN <<>>
    ELSE LET first == CHOOSE r \in DOMAIN found : \A q \in DOMAIN found :
                          IF ascending THEN ~StrLess(q.date, r.date)
                          ELSE ~StrLess(r.date, q.date)
             rest == [q \in DOMAIN found \ {first} |-> found[q]]
         IN [i \in 1..found[first] |-> first] \o SortByDate(rest, ascending)

(***************************************************************************)
(* Requests and responses.  Every response is {code, message, data}; data  *)
(* is <<>> for null and <<d>> for an object d.  The messages are named:    *)
(* the source's texts are Chinese.                                         *)
(***************************************************************************)
Response(code, message, data) == [code |-> code, message |-> message, data |-> data]

NoResponse == Response(0, "", <<>>)

\* a request slot: the handler that runs (op), where it stands (pc), the user
\* of its token, the handler's local variables, and its response once sent
IdleReq ==
    [op |-> "", pc |-> "idle", userId |-> 0, type |-> "", incompleteTasks |-> <<>>,
     note |-> "", checkInDate |-> <<>>, at |-> 0, monthlyRecords |-> EmptyBag,
     resp |-> NoResponse]

\* what a response shows of a document (its id apart)
View(r) ==
    [date |-> r.date, type |-> r.type, isCompleted |-> r.isCompleted,
     incompleteTasks |-> r.incompleteTasks, note |-> r.note]

(***************************************************************************)
(* POST /api/checkin                                                       *)
(***************************************************************************)
\* !type
TypeMissing(type) == type = ""

\* the check of the value left out
AnyTypeAllowed(type) == TRUE

\* ['completed', 'incomplete'].includes(type)
TypeAllowed(type) == type \in CheckInTypes

\* date || new Date().toISOString().slice(0, 10)
CheckInDateOf(date, t) == IF date # <<>> THEN date ELSE ToISODate(t)

\* isCompleted left to the schema's default
IsCompletedDefault(type) == FALSE

\* isCompleted: type === 'completed'
IsCompletedOf(type) == type = "completed"

\* new CheckIn({...})
NewCheckIn(u, checkInDate, type, incompleteTasks, note) ==
    [userId |-> u, date |-> checkInDate, type |-> type,
     isCompleted |-> IsCompletedOf(type),
     incompleteTasks |-> incompleteTasks, note |-> note]

\* the handler up to its first await: the parameter checks and the date
CheckInBegin(r, u, body) ==
    /\ req[r].pc = "idle"
    /\ LET q == [IdleReq EXCEPT !.op = "checkin", !.userId = u, !.type = body.type]
       IN req' = [req EXCEPT ![r] =
            IF TypeMissing(body.type)
            THEN [q EXCEPT !.pc = "done", !.resp = Response(400, "type-missing", <<>>)]
            ELSE IF ~TypeAllowed(body.type)
            THEN [q EXCEPT !.pc = "done", !.resp = Response(400, "type-invalid", <<>>)]
            ELSE [q EXCEPT !.pc = "find",
                     !.incompleteTasks = body.incompleteTasks, !.note = body.note,
                     !.checkInDate = CheckInDateOf(body.date, now)]]
    /\ UNCHANGED <<store, now, tz>>
    /\ UNCHANGED others

\* await CheckIn.findOne(...) and the check of its result
CheckInFind(r) ==
    /\ req[r].op = "checkin" /\ req[r].pc = "find"
    /\ LET existing == FindOne(store, req[r].userId, req[r].checkInDate)
       IN req' = [req EXCEPT ![r] =
            IF DOMAIN existing # {}
            THEN LET e == CHOOSE x \in DOMAIN existing : TRUE
                 IN [@ EXCEPT !.pc = "done", !.incompleteTasks = <<>>, !.note = "",
                        !.resp = Response(400, "already-checked-in",
                            <<[existingRecord |-> [date |-> e.date, type |-> e.type]]>>)]
            ELSE [@ EXCEPT !.pc = "save"]]
    /\ UNCHANGED <<store, now, tz>>
    /\ UNCHANGED others

\* a catch block that does not tell the duplicate-key error apart
CatchAllUnexpected(errorCode) == Response(500, "checkin-failed", <<>>)

\* the catch block: a duplicate-key error of the storage (error.code === 11000)
\* is answered with code 400, any other error with code 500
CatchResponse(errorCode) ==
    IF errorCode = 11000 THEN Response(400, "date-has-record", <<>>)
    ELSE Response(500, "checkin-failed", <<>>)

\* await checkIn.save(), the success response and the catch block
CheckInSave(r) ==
    /\ req[r].op = "checkin" /\ req[r].pc = "save"
    /\ LET checkIn == NewCheckIn(req[r].userId, req[r].checkInDate, req[r].type,
                                 req[r].incompleteTasks, req[r].note)
           sent == [req[r] EXCEPT !.pc = "done", !.incompleteTasks = <<>>, !.note = ""]
       IN IF ~SchemaAccepts(checkIn)
          THEN /\ req' = [req EXCEPT ![r] =
                              [sent EXCEPT !.resp = CatchResponse(0)]]
               /\ store' = store
          ELSE IF IndexRefuses(store, checkIn)
          THEN /\ req' = [req EXCEPT ![r] =
                              [sent EXCEPT !.resp = CatchResponse(11000)]]
               /\ store' = store
          ELSE /\ store' = Insert(store, checkIn)
               /\ req' = [req EXCEPT ![r] = [sent EXCEPT !.resp = Response(200,
                                  IF checkIn.type = "completed" THEN "checkin-ok"
                                  ELSE "slip-recorded",
                                  <<[checkIn |-> View(checkIn)]>>)]]
    /\ UNCHANGED <<now, tz>>
    /\ UNCHANGED others

(***************************************************************************)
(* GET /api/checkin?year&month                                             *)
(***************************************************************************)
\* parseInt(param) || fallback: a missing or non-numeric parameter parses to
\* NaN, which like 0 is falsy; both are the query value 0 here
ParamOr(param, fallback) == IF param # 0 THEN param ELSE fallback

\* `${year}-${monthStr}-DD` with monthStr = String(month).padStart(2, '0')
MonthBound(year, month, dd) ==
    NumStr(year) \o Dash \o PadStart(NumStr(month), 2) \o Dash \o dd

MonthStart(year, month) == MonthBound(year, month, <<Digit(0), Digit(1)>>)

MonthEnd(year, month) == MonthBound(year, month, <<Digit(3), Digit(1)>>)

IsCompleted(r) == r.isCompleted

NotCompleted(r) == ~r.isCompleted

MapView(records) == [i \in DOMAIN records |-> View(records[i])]

\* the response of the handler for the documents its query found
ListMonthResponse(coll, u, query, t, zone) ==
    LET year == ParamOr(query.year, GetFullYear(zone, t))
        month == ParamOr(query.month, GetMonth1(zone, t))
        found == FindRange(coll, u, MonthStart(year, month), MonthEnd(year, month))
        records == SortByDate(found, TRUE)
    IN Response(200, "ok",
           <<[year |-> year, month |-> month, total |-> Len(records),
              completedCount |-> CountIf(found, IsCompleted),
              incompleteCount |-> CountIf(found, NotCompleted),
              records |-> MapView(records)]>>)

ListMonth(r, u, query) ==
    /\ req[r].pc = "idle"
    /\ req' = [req EXCEPT ![r] =
           [IdleReq EXCEPT !.op = "list", !.pc = "done", !.userId = u, !.at = now,
                !.resp = ListMonthResponse(store, u, query, now, tz)]]
    /\ UNCHANGED <<store, now, tz>>
    /\ UNCHANGED others

(***************************************************************************)
(* GET /api/checkin/today                                                  *)
(***************************************************************************)
TodayResponse(coll, u, t) ==
    LET record == FindOne(coll, u, ToISODate(t))
    IN IF DOMAIN record # {}
       THEN Response(200, "checked-in-today",
                <<[hasCheckedIn |-> TRUE,
                   record |-> <<View(CHOOSE x \in DOMAIN record : TRUE)>>]>>)
       ELSE Response(200, "not-checked-in-today",
                <<[hasCheckedIn |-> FALSE, record |-> <<>>]>>)

TodayStatus(r, u) ==
    /\ req[r].pc = "idle"
    /\ req' = [req EXCEPT ![r] =
           [IdleReq EXCEPT !.op = "today", !.pc = "done", !.userId = u, !.at = now,
                !.resp = TodayResponse(store, u, now)]]
    /\ UNCHANGED <<store, now, tz>>
    /\ UNCHANGED others

(***************************************************************************)
(* GET /api/checkin/stats                                                  *)
(***************************************************************************)
\* no day of grace: "yesterday" is today
YesterdayIsToday(t) == ToISODate(t)

\* new Date(now.getTime() - 24 * 60 * 60 * 1000).toISOString().slice(0, 10)
Yesterday(t) == ToISODate(t - 24)

\* prevDate = new Date(checkDate); prevDate.setDate(prevDate.getDate() - 1);
\* prevDate.toISOString().slice(0, 10)
PrevDate(checkDate, zone) == ToISODate(SetDatePrev(zone, ParseISODate(checkDate)))

\* while (checkInDates.includes(checkDate)) { streak++; checkDate = ... }
RECURSIVE StreakWalk(_, _, _, _)
StreakWalk(checkInDates, checkDate, streak, zone) ==
    IF checkDate \in checkInDates
    THEN StreakWalk(checkInDates, PrevDate(checkDate, zone), streak + 1, zone)
    ELSE streak

\* only the dates of the completed check-ins
CompletedDates(allRecords) ==
    {allRecords[i].date : i \in {j \in DOMAIN allRecords : allRecords[j].isCompleted}}

\* allRecords.map(r => r.date)
CheckInDates(allRecords) == {allRecords[i].date : i \in DOMAIN allRecords}

Streak(allRecords, t, zone) ==
    LET today == ToISODate(t)
        yesterday == Yesterday(t)
        checkInDates == CheckInDates(allRecords)
    IN IF today \in checkInDates \/ yesterday \in checkInDates
       THEN StreakWalk(checkInDates,
                IF today \in checkInDates THEN today ELSE yesterday, 0, zone)
       ELSE 0

Tally(found) ==
    [total |-> Count(found), completed |-> CountIf(found, IsCompleted),
     incomplete |-> CountIf(found, NotCompleted)]

\* the month taken from the UTC date, as today is
StatsMonthlyRecordsUTC(coll, u, t, zone) ==
    FindRange(coll, u, MonthStart(GetFullYear("UTC", t), GetMonth1("UTC", t)),
              MonthEnd(GetFullYear("UTC", t), GetMonth1("UTC", t)))

\* the month of the monthly figures: now.getFullYear(), now.getMonth() + 1
StatsMonthlyRecords(coll, u, t, zone) ==
    FindRange(coll, u, MonthStart(GetFullYear(zone, t), GetMonth1(zone, t)),
              MonthEnd(GetFullYear(zone, t), GetMonth1(zone, t)))

StatsResponse(monthlyRecords, allFound, t, zone) ==
    Response(200, "ok",
        <<[monthly |-> Tally(monthlyRecords), overall |-> Tally(allFound),
           streak |-> Streak(SortByDate(allFound, FALSE), t, zone)]>>)

\* now = new Date() and the first await: the documents of the current month
StatsFindMonthly(r, u) ==
    /\ req[r].pc = "idle"
    /\ req' = [req EXCEPT ![r] =
           [IdleReq EXCEPT !.op = "stats", !.pc = "all", !.userId = u, !.at = now,
                !.monthlyRecords = StatsMonthlyRecords(store, u, now, tz)]]
    /\ UNCHANGED <<store, now, tz>>
    /\ UNCHANGED others

\* the second await (all the user's documents), the streak and the response
StatsFindAll(r) ==
    /\ req[r].op = "stats" /\ req[r].pc = "all"
    /\ req' = [req EXCEPT ![r] =
           [IdleReq EXCEPT !.op = "stats", !.pc = "done", !.userId = req[r].userId,
                !.at = req[r].at, !.resp = StatsResponse(req[r].monthlyRecords,
                             FindByUser(store, req[r].userId), req[r].at, tz)]]
    /\ UNCHANGED <<store, now, tz>>
    /\ UNCHANGED others

(***************************************************************************)
(* The client has its response: the slot is free for the next request.     *)
(***************************************************************************)
Close(r) ==
    /\ req[r].pc = "done"
    /\ req' = [req EXCEPT ![r] = IdleReq]
    /\ UNCHANGED <<store, now, tz>>
    /\ UNCHANGED others

(***************************************************************************)
(* The clock.                                                              *)
(***************************************************************************)
Tick(last) ==
    /\ now + 24 <= last
    /\ now' = now + 24
    /\ UNCHANGED <<store, req, tz>>
    /\ UNCHANGED others

(***************************************************************************)
(* The requests of the model.                                              *)
(***************************************************************************)
BodyOf(type, date) ==
    [type |-> type,
     incompleteTasks |-> IF type = "incomplete"
                         THEN <<[title |-> "stop-loss", content |-> "moved it"]>>
                         ELSE <<>>,
     note |-> IF type = "incomplete" THEN "fomo" ELSE "",
     date |-> date]

StartNow == TimeOf(2024, 10, 30, 20)

\* the date parameter of a check-in: absent, or the current date
DateArgs == {<<>>, ToISODate(StartNow)}

TypeArgs == {"completed", "incomplete", "sloppy", ""}

CheckInBodies == {BodyOf(type, date) : type \in TypeArgs, date \in DateArgs}

\* no account, no code, no daily record, no token yet; the clock on the hour
OthersEmpty ==
    /\ sub = 0
    /\ users = {}
    /\ codes = <<>>
    /\ daily = EmptyBag
    /\ issued = {}
    /\ ureq = <<>>
    /\ NoDocs

(***************************************************************************)
(* Spec: concurrent check-in requests of the users against one collection. *)
(***************************************************************************)
Init ==
    /\ store = EmptyBag
    /\ req = [r \in Slots |-> IdleReq]
    /\ now = StartNow
    /\ tz \in Zones
    /\ OthersEmpty

Next ==
    \/ \E r \in Slots, u \in Users, body \in CheckInBodies : CheckInBegin(r, u, body)
    \/ \E r \in Slots : CheckInFind(r)
    \/ \E r \in Slots : CheckInSave(r)
    \/ \E r \in Slots : Close(r)

Spec == Init /\ [][Next]_vars

(***************************************************************************)
(* SpecEngine: the read handlers over every check-in history of at most    *)
(* MaxHist documents of user 1 on the WindowDays days that end at an       *)
(* anchor date, with at most one further document (of user 2, or of user 1 *)
(* under a date that is not of the form YYYY-MM-DD), as the clock advances *)
(* from the anchor day, 20:00Z, by up to MaxAhead days.  The anchors put a *)
(* change of month, of year, the leap day and the end of daylight saving   *)
(* time within the window.  The documents are those POST /api/checkin      *)
(* creates: one per (userId, date), built by NewCheckIn.                   *)
(***************************************************************************)
Anchors == {TimeOf(2024, 10, 30, 20), TimeOf(2024, 1, 2, 20), TimeOf(2024, 3, 1, 20)}

Window(anchor) == {ToISODate(anchor - 24 * k) : k \in 0..(WindowDays - 1)}

DocOf(u, date, type) ==
    LET body == BodyOf(type, date)
    IN NewCheckIn(u, date, body.type, body.incompleteTasks, body.note)

Histories(anchor) ==
    UNION {{{DocOf(1, d, kind[d]) : d \in days} : kind \in [days -> CheckInTypes]} :
           days \in {ds \in SUBSET Window(anchor) : Cardinality(ds) <= MaxHist}}

Extras(anchor) ==
    {{}, {DocOf(2, ToISODate(anchor), "completed")},
     {DocOf(1, SubSeq(ToISODate(anchor), 1, 9), "incomplete")}}

\* the year and month parameters of GET /api/checkin (0: absent)
ListQueries ==
    {[year |-> 0, month |-> 0], [year |-> 2024, month |-> 10], [year |-> 0, month |-> 2]}

InitEngine ==
    /\ now \in Anchors
    /\ tz \in Zones
    /\ \E h \in Histories(now), e \in Extras(now) : store = SetToBag(h \cup e)
    /\ req = [r \in Slots |-> IdleReq]
    /\ OthersEmpty

NextEngine ==
    \/ \E u \in Users, query \in ListQueries : ListMonth(1, u, query)
    \/ \E u \in Users : TodayStatus(1, u)
    \/ \E u \in Users : StatsFindMonthly(1, u)
    \/ StatsFindAll(1)
    \/ Close(1)
    \/ \E anchor \in Anchors : anchor <= now /\ Tick(anchor + 24 * MaxAhead)

SpecEngine == InitEngine /\ [][NextEngine]_vars

(***************************************************************************)
(* Properties of POST /api/checkin, checked under Spec.                    *)
(***************************************************************************)
CheckInDone(r) == req[r].op = "checkin" /\ req[r].pc = "done"

\* the responses of a request that went on to save(): its findOne found nothing
SaveMessages == {"checkin-ok", "slip-recorded", "date-has-record", "checkin-failed"}

DuplicateMessages == {"already-checked-in", "date-has-record"}

ValidationMessages == {"type-missing", "type-invalid"}

CopiesOfKey(coll, u, date) == Count(FindOne(coll, u, date))

\* what two answered check-in requests of one user for one date show
PairOutcome ==
    \A r1, r2 \in Slots :
        (/\ r1 # r2 /\ CheckInDone(r1) /\ CheckInDone(r2)
         /\ req[r1].type \in CheckInTypes /\ req[r2].type \in CheckInTypes
         /\ req[r1].userId = req[r2].userId
         /\ req[r1].checkInDate = req[r2].checkInDate)
        => /\ req[r1].resp.code # 500 /\ req[r2].resp.code # 500
           /\ ~(req[r1].resp.code = 200 /\ req[r2].resp.code = 200)
           /\ CopiesOfKey(store, req[r1].userId, req[r1].checkInDate) = 1
           /\ (req[r1].resp.code = 200 =>
                  req[r2].resp.code = 400 /\ req[r2].resp.message \in DuplicateMessages)

\* C1: of two check-in requests of one user for one date that race (each has
\* passed its findOne before the other saves), the one that saves first is
\* answered with code 200 and stores the document, and the other is then refused
\* with the duplicate failure, code 400, and stores nothing; of any two answered
\* requests of one user for one date at most one has code 200, none has code
\* 500, and the collection holds exactly one document of that user and date.
C1_RaceOneSuccessOneDuplicate ==
    [][/\ PairOutcome'
       /\ \A r1, r2 \in Slots :
             (/\ r1 # r2
              /\ req[r1].op = "checkin" /\ req[r2].op = "checkin"
              /\ req[r1].userId = req[r2].userId
              /\ req[r1].checkInDate = req[r2].checkInDate
              /\ req[r1].pc = "save" /\ req'[r1].pc = "done"
              /\ \/ req[r2].pc = "save"
                 \/ req[r2].pc = "done" /\ req[r2].resp.message \in SaveMessages)
             => IF CopiesOfKey(store, req[r1].userId, req[r1].checkInDate) = 0
                THEN /\ req'[r1].resp.code = 200
                     /\ req[r2].pc = "save"
                     /\ CopiesOfKey(store', req[r1].userId, req[r1].checkInDate) = 1
                ELSE /\ req'[r1].resp.code = 400
                     /\ req'[r1].resp.message = "date-has-record"
                     /\ store' = store]_vars

\* both requests found nothing, one saved, the other was refused by the index
C1_Witness ==
    \E r1, r2 \in Slots :
        /\ r1 # r2 /\ CheckInDone(r1) /\ CheckInDone(r2)
        /\ req[r1].userId = req[r2].userId
        /\ req[r1].checkInDate = req[r2].checkInDate
        /\ req[r1].resp.code = 200
        /\ req[r2].resp.message = "date-has-record"
        /\ req[r1].type # req[r2].type

\* C2: in every reachable state the collection holds at most one document for
\* each (userId, date).
C2_OneRecordPerUserAndDate ==
    \A d \in DOMAIN store :
        /\ store[d] = 1
        /\ \A e \in DOMAIN store : SameKey(d, e) => d = e

\* both users hold a document and a racing second insert has been refused
C2_Witness ==
    /\ \A u \in Users : \E d \in DOMAIN store : d.userId = u
    /\ \E r \in Slots : CheckInDone(r) /\ req[r].resp.message = "date-has-record"

\* C3: a check-in request that completes while the collection holds a document
\* of its user and date is answered with code 400 and leaves the collection as
\* it is (no document added, the existing one as it was), with the duplicate
\* failure when its type is one of completed and incomplete; a request refused
\* for its type leaves the collection as it is too.
C3_DuplicateLeavesStoreUnchanged ==
    [][\A r \in Slots :
          /\ (/\ req[r].op = "checkin" /\ req[r].pc \in {"find", "save"}
              /\ req'[r].pc = "done"
              /\ CopiesOfKey(store, req[r].userId, req[r].checkInDate) > 0)
             => /\ req'[r].resp.code = 400
                /\ req'[r].resp.message \in DuplicateMessages
                /\ store' = store
          /\ (req[r].pc = "idle" /\ req'[r].op = "checkin" /\ req'[r].pc = "done")
             => req'[r].resp.code = 400 /\ store' = store]_vars

\* a second check-in of another type was refused and the first document stands
C3_Witness ==
    \E r \in Slots :
        /\ CheckInDone(r)
        /\ req[r].resp.message = "already-checked-in"
        /\ req[r].resp.data[1].existingRecord.type # req[r].type
        /\ \E d \in DOMAIN store :
              /\ d.userId = req[r].userId /\ d.date = req[r].checkInDate
              /\ d.type = req[r].resp.data[1].existingRecord.type
              /\ store[d] = 1

\* C10: a check-in request whose type is missing or not one of completed and
\* incomplete is answered at once with a validation failure, code 400, and no
\* document is created; every stored document has type completed or incomplete.
C10_InvalidKindRejected ==
    [][/\ \A r \in Slots :
             (req[r].pc = "idle" /\ req'[r].op = "checkin"
                  /\ req'[r].type \notin CheckInTypes)
             => /\ req'[r].pc = "done"
                /\ req'[r].resp.code = 400
                /\ req'[r].resp.message \in ValidationMessages
                /\ store' = store
       /\ \A d \in DOMAIN store' : d.type \in CheckInTypes]_vars

\* a request with a type outside the two has been refused while documents exist
C10_Witness ==
    /\ \E r \in Slots :
          /\ CheckInDone(r) /\ req[r].type = "sloppy"
          /\ req[r].resp.code = 400 /\ req[r].resp.message = "type-invalid"
    /\ \E r \in Slots :
          /\ CheckInDone(r) /\ req[r].type = ""
          /\ req[r].resp.message = "type-missing"
    /\ store # EmptyBag

(***************************************************************************)
(* Properties of the read handlers, checked under SpecEngine.              *)
(***************************************************************************)
StatsDone(r) == req[r].op = "stats" /\ req[r].pc = "done"

ListDone(r) == req[r].op = "list" /\ req[r].pc = "done"

DatesOf(coll, u) == {d.date : d \in {x \in DOMAIN coll : x.userId = u}}

IsDigitCode(c) == Digit(0) <= c /\ c <= Digit(9)

\* a string YYYY-MM-DD that names a day of the calendar
IsCalendarDate(s) ==
    /\ Len(s) = 10
    /\ \A i \in 1..10 : IF i \in {5, 8} THEN <<s[i]>> = Dash ELSE IsDigitCode(s[i])
    /\ ToISODate(ParseISODate(s)) = s

\* the days (counted from 1970-01-01) that have a document of the user
DaysOf(coll, u) == {ParseISODate(s) \div 24 : s \in {x \in DatesOf(coll, u) : IsCalendarDate(x)}}

\* the length of the run of consecutive days with a document that ends at day
RECURSIVE RunLength(_, _)
RunLength(days, day) == IF day \in days THEN 1 + RunLength(days, day - 1) ELSE 0

ExpectedStreak(coll, u, t) ==
    LET days == DaysOf(coll, u)
        today == t \div 24
    IN RunLength(days, IF today \in days THEN today ELSE today - 1)

StreakAt(coll, u, t, zone) == Streak(SortByDate(FindByUser(coll, u), FALSE), t, zone)

January(days) == SetToBag({DocOf(1, FormatDate(2024, 1, d), "completed") : d \in days})

\* C4: the streak computeStats returns is the length of the maximal run of
\* consecutive calendar days with a document, ending today if today has one and
\* yesterday otherwise (0 if neither has); documents on 2024-01-10, 11, 12 with
\* today 2024-01-12 give 3, without the one on 2024-01-11 they give 1.
C4_StreakIsMaximalRun ==
    /\ \A r \in Slots :
          StatsDone(r) =>
              req[r].resp.data[1].streak = ExpectedStreak(store, req[r].userId, req[r].at)
    /\ StreakAt(January({10, 11, 12}), 1, TimeOf(2024, 1, 12, 20), tz) = 3
    /\ StreakAt(January({10, 12}), 1, TimeOf(2024, 1, 12, 20), tz) = 1

LatestDate(dates) == CHOOSE d \in dates : \A e \in dates : ~StrLess(d, e)

\* C5: when the latest document of the user is dated yesterday, computeStats
\* returns the streak it returned 24 hours earlier, when that date was today;
\* when the latest document is dated before yesterday it returns streak 0.
C5_GraceThenReset ==
    \A r \in Slots :
        (StatsDone(r) /\ DatesOf(store, req[r].userId) # {}) =>
            LET latest == LatestDate(DatesOf(store, req[r].userId))
                streak == req[r].resp.data[1].streak
            IN /\ latest = ToISODate(req[r].at - 24) =>
                      streak = StreakAt(store, req[r].userId, req[r].at - 24, tz)
               /\ StrLess(latest, ToISODate(req[r].at - 24)) => streak = 0

\* a streak of two days or more is still reported the day after its last day
C5_Witness ==
    \E r \in Slots :
        /\ StatsDone(r)
        /\ DatesOf(store, req[r].userId) # {}
        /\ LatestDate(DatesOf(store, req[r].userId)) = ToISODate(req[r].at - 24)
        /\ req[r].resp.data[1].streak >= 2

\* the collection with every document of the user given the type kind
Retyped(coll, u, kind) ==
    SetToBag({d \in DOMAIN coll : d.userId # u}
             \cup {DocOf(u, d.date, kind) : d \in {x \in DOMAIN coll : x.userId = u}})

\* C6: the streak depends on the dates of the user's documents only, not on
\* their types: the streak computeStats returns is the one it returns, at the
\* same instant, when every document of the user has type completed, and when
\* every one has type incomplete; so any two assignments of completed and
\* incomplete to the same dates yield the same streak.
C6_StreakIgnoresKind ==
    \A r \in Slots :
        StatsDone(r) =>
            \A kind \in CheckInTypes :
                StreakAt(Retyped(store, req[r].userId, kind), req[r].userId, req[r].at, tz)
                    = req[r].resp.data[1].streak

\* a streak over documents of both types
C6_Witness ==
    \E r \in Slots :
        /\ StatsDone(r)
        /\ req[r].resp.data[1].streak >= 2
        /\ \E a, b \in DOMAIN store :
              /\ a.userId = req[r].userId /\ b.userId = req[r].userId
              /\ a.type = "completed" /\ b.type = "incomplete"
              /\ a.date = ToISODate(req[r].at) /\ b.date = ToISODate(req[r].at - 24)

\* "YYYY-MM-"
MonthPrefix(year, month) ==
    PadStart(NumStr(year), 4) \o Dash \o PadStart(NumStr(month), 2) \o Dash

\* the user's documents whose date lies within [YYYY-MM-01, YYYY-MM-31]
InMonth(coll, u, year, month) ==
    LET first == MonthPrefix(year, month) \o <<Digit(0), Digit(1)>>
        last == MonthPrefix(year, month) \o <<Digit(3), Digit(1)>>
    IN {d \in DOMAIN coll : d.userId = u /\ StrLeq(first, d.date) /\ StrLeq(d.date, last)}

\* C7: listMonth returns exactly the requesting user's documents whose date lies
\* lexicographically within [YYYY-MM-01, YYYY-MM-31], and every returned date
\* starts with "YYYY-MM-": no document of another month or user is returned.
C7_ListMonthRange ==
    \A r \in Slots :
        ListDone(r) =>
            LET data == req[r].resp.data[1]
                expected == InMonth(store, req[r].userId, data.year, data.month)
                prefix == MonthPrefix(data.year, data.month)
            IN /\ {data.records[i] : i \in DOMAIN data.records} = {View(d) : d \in expected}
               /\ Len(data.records) = Cardinality(expected)
               /\ \A i \in DOMAIN data.records : StartsWith(data.records[i].date, prefix)

\* a list that leaves out a document of the user of another month and a
\* document of the other user of the same month
C7_Witness ==
    \E r \in Slots :
        /\ ListDone(r)
        /\ Len(req[r].resp.data[1].records) >= 1
        /\ \E d \in DOMAIN store :
              /\ d.userId = req[r].userId
              /\ IsCalendarDate(d.date)
              /\ ~StartsWith(d.date, MonthPrefix(req[r].resp.data[1].year,
                                                 req[r].resp.data[1].month))
        /\ \E d \in DOMAIN store :
              /\ d.userId # req[r].userId
              /\ StartsWith(d.date, MonthPrefix(req[r].resp.data[1].year,
                                                req[r].resp.data[1].month))

\* C8: the records of a listMonth response are in ascending order of date,
\* completedCount and incompleteCount count the returned records of type
\* completed and incomplete, and total is their sum and the number of records.
C8_ListMonthCounts ==
    \A r \in Slots :
        ListDone(r) =>
            LET data == req[r].resp.data[1]
                recs == data.records
            IN /\ \A i, j \in DOMAIN recs : i < j => ~StrLess(recs[j].date, recs[i].date)
               /\ data.completedCount
                     = Cardinality({i \in DOMAIN recs : recs[i].type = "completed"})
               /\ data.incompleteCount
                     = Cardinality({i \in DOMAIN recs : recs[i].type = "incomplete"})
               /\ data.total = data.completedCount + data.incompleteCount
               /\ data.total = Len(recs)

\* a list of three records of both types
C8_Witness ==
    \E r \in Slots :
        /\ ListDone(r)
        /\ Len(req[r].resp.data[1].records) >= 3
        /\ req[r].resp.data[1].completedCount >= 1
        /\ req[r].resp.data[1].incompleteCount >= 1

\* C9: the monthly figures of computeStats are the total, completedCount and
\* incompleteCount of listMonth without parameters, for the same user,
\* collection and instant.
C9_MonthlyEqualsListMonth ==
    \A r \in Slots :
        StatsDone(r) =>
            LET monthly == req[r].resp.data[1].monthly
                list == ListMonthResponse(store, req[r].userId,
                            [year |-> 0, month |-> 0], req[r].at, tz).data[1]
            IN /\ monthly.total = list.total
               /\ monthly.completed = list.completedCount
               /\ monthly.incomplete = list.incompleteCount

\* monthly figures of both types that leave out documents of another month
C9_Witness ==
    \E r \in Slots :
        /\ StatsDone(r)
        /\ req[r].resp.data[1].monthly.completed >= 1
        /\ req[r].resp.data[1].monthly.incomplete >= 1
        /\ req[r].resp.data[1].monthly.total < req[r].resp.data[1].overall.total

(***************************************************************************)
(* SpecDates: check-in requests, one at a time, whose body carries a date  *)
(* of the client's choosing: none, the current date, the current date with *)
(* a time of day appended ("2024-10-30T08"), and the current date cut      *)
(* short ("2024-10-3").  The handler takes any truthy date as it is.       *)
(***************************************************************************)
ClientDates ==
    {<<>>, ToISODate(StartNow), ToISODate(StartNow) \o <<84, Digit(0), Digit(8)>>,
     SubSeq(ToISODate(StartNow), 1, 9)}

ClientBodies == {BodyOf(type, date) : type \in CheckInTypes, date \in ClientDates}

NextDates ==
    \/ \E u \in Users, body \in ClientBodies : CheckInBegin(1, u, body)
    \/ CheckInFind(1)
    \/ CheckInSave(1)
    \/ Close(1)

SpecDates == Init /\ [][NextDates]_vars

\* C11: in every reachable state the date of every stored document is a
\* calendar date of the form YYYY-MM-DD with no time component, also when the
\* request gave the date itself.
C11_StoredDatesAreCalendarDates ==
    \A d \in DOMAIN store : IsCalendarDate(d.date)

(***************************************************************************)
(* GET /api/daily/:date (src/routes/daily.js) over the DailyRecord         *)
(* collection (src/unnamed/part_002).                                      *)
(***************************************************************************)
\* /^\d{4}-\d{2}-\d{2}$/.test(date)
DateParamOk(date) ==
    /\ Len(date) = 10
    /\ \A i \in 1..10 : IF i \in {5, 8} THEN <<date[i]>> = Dash ELSE IsDigitCode(date[i])

\* a DailyRecord document
DailyDoc(u, date, tradingPlans, reflection) ==
    [userId |-> u, date |-> date, tradingPlans |-> tradingPlans, reflection |-> reflection]

\* the answer for a date without a record that says it has one
DailyMissingAsFound(date) ==
    Response(200, "ok",
        <<[date |-> date, tradingPlans |-> <<>>, reflection |-> "", exists |-> TRUE]>>)

\* the answer for a date with a record
DailyFound(record) ==
    Response(200, "ok",
        <<[date |-> record.date, tradingPlans |-> record.tradingPlans,
           reflection |-> record.reflection, exists |-> TRUE]>>)

\* the answer for a date without a record: empty data, nothing created
DailyMissing(date) ==
    Response(200, "ok",
        <<[date |-> date, tradingPlans |-> <<>>, reflection |-> "", exists |-> FALSE]>>)

DailyGetResponse(coll, u, date) ==
    IF ~DateParamOk(date) THEN Response(400, "date-format", <<>>)
    ELSE LET record == FindOne(coll, u, date)
         IN IF DOMAIN record = {} THEN DailyMissing(date)
            ELSE DailyFound(CHOOSE x \in DOMAIN record : TRUE)

DailyGet(r, u, date) ==
    /\ req[r].pc = "idle"
    /\ req' = [req EXCEPT ![r] =
           [IdleReq EXCEPT !.op = "daily", !.pc = "done", !.userId = u, !.at = now,
                !.checkInDate = date, !.resp = DailyGetResponse(daily, u, date)]]
    /\ UNCHANGED <<store, now, tz>>
    /\ UNCHANGED others

\* the clock advances by an hour
TickHour(last) ==
    /\ now + 1 <= last
    /\ now' = now + 1
    /\ UNCHANGED <<store, req, tz>>
    /\ UNCHANGED others

(***************************************************************************)
(* SpecReads: the read handlers alone, two requests at a time, over small  *)
(* CheckIn and DailyRecord collections, while the clock advances by the    *)
(* hour from 20:00Z up to MaxHours hours (past midnight UTC).              *)
(***************************************************************************)
MaxHours == 4

ReadSlots == {1, 2}

ReadCheckIns ==
    SUBSET {DocOf(1, ToISODate(StartNow), "completed"),
            DocOf(2, ToISODate(StartNow + 24), "incomplete")}

ReadDailies ==
    {EmptyBag,
     SetToBag({DailyDoc(1, ToISODate(StartNow),
                        <<[title |-> "plan", content |-> "wait"]>>, "patience")})}

DailyDates == {ToISODate(StartNow), SubSeq(ToISODate(StartNow), 1, 9)}

InitReads ==
    /\ now = StartNow
    /\ tz = "Asia/Shanghai"
    /\ \E h \in ReadCheckIns : store = SetToBag(h)
    /\ req = [r \in Slots |-> IdleReq]
    /\ sub = 0 /\ users = {} /\ codes = <<>> /\ issued = {} /\ ureq = <<>>
    /\ daily \in ReadDailies
    /\ NoDocs

NextReads ==
    \/ \E r \in ReadSlots, u \in Users : ListMonth(r, u, [year |-> 0, month |-> 0])
    \/ \E r \in ReadSlots, u \in Users : TodayStatus(r, u)
    \/ \E r \in ReadSlots, u \in Users : StatsFindMonthly(r, u)
    \/ \E r \in ReadSlots : StatsFindAll(r)
    \/ \E r \in ReadSlots, u \in Users, date \in DailyDates : DailyGet(r, u, date)
    \/ \E r \in ReadSlots : Close(r)
    \/ TickHour(StartNow + MaxHours)

SpecReads == InitReads /\ [][NextReads]_vars

ReadOps == {"list", "today", "stats", "daily"}

\* C12: a step of todayStatus, listMonth, computeStats or the daily GET leaves
\* every collection as it is; the daily GET of a well-formed date without a
\* record answers with empty data and exists = false; and two answered
\* todayStatus requests of one user on one date, no write between them, carry
\* the same data.
C12_ReadsChangeNothing ==
    [][/\ (\E r \in ReadSlots : req'[r] # req[r] /\ req'[r].op \in ReadOps)
          => UNCHANGED <<store, daily, users, codes>>
       /\ \A r \in ReadSlots :
             (/\ req'[r].op = "daily" /\ req'[r].pc = "done" /\ req[r].pc = "idle"
              /\ DateParamOk(req'[r].checkInDate)
              /\ DOMAIN FindOne(daily, req'[r].userId, req'[r].checkInDate) = {})
             => /\ req'[r].resp.code = 200
                /\ req'[r].resp.data[1] =
                       [date |-> req'[r].checkInDate, tradingPlans |-> <<>>,
                        reflection |-> "", exists |-> FALSE]
                /\ daily' = daily
       /\ \A r1, r2 \in ReadSlots :
             (/\ req'[r1].op = "today" /\ req'[r1].pc = "done"
              /\ req'[r2].op = "today" /\ req'[r2].pc = "done"
              /\ req'[r1].userId = req'[r2].userId
              /\ ToISODate(req'[r1].at) = ToISODate(req'[r2].at))
             => req'[r1].resp = req'[r2].resp]_vars

\* two todayStatus answers with a record, an hour or more apart on one date,
\* next to a daily GET that found no record
C12_Witness ==
    \E r1, r2 \in ReadSlots :
        /\ req[r1].op = "today" /\ req[r1].pc = "done"
        /\ req[r1].resp.data[1].hasCheckedIn
        /\ now > req[r1].at /\ ToISODate(now) = ToISODate(req[r1].at)
        /\ daily = EmptyBag
        /\ req[r2].op = "daily" /\ req[r2].pc = "done" /\ req[r2].resp.code = 200

(***************************************************************************)
(* The clock in milliseconds, the tokens (jsonwebtoken) and the Auth Gate  *)
(* (src/middleware/auth.js).                                               *)
(***************************************************************************)
\* Date.now(), in milliseconds counted from StartNow (a whole hour, so that
\* whole seconds and the differences of times are those of Date.now())
DateNow == (now - StartNow) * 3600000 + sub

JWT_SECRET == "QWEDSA123"

\* the payload's iat and exp are in whole seconds; expiresIn: '7d'
TokenLifetime == 7 * 24 * 60 * 60

\* a token signed with another key than the one the gate verifies with
JwtSignOtherKey(userId, secret, t) ==
    [userId |-> userId, iat |-> t \div 1000, exp |-> t \div 1000 + TokenLifetime,
     key |-> "other"]

\* jwt.sign({userId}, secret, {expiresIn: '7d'}) at time t (milliseconds)
JwtSign(userId, secret, t) ==
    [userId |-> userId, iat |-> t \div 1000, exp |-> t \div 1000 + TokenLifetime,
     key |-> secret]

\* a string that is no token at all
Garbage == [userId |-> 0, iat |-> 0, exp |-> 0, key |-> ""]

\* a verification that does not look at the expiry
JwtVerifyIgnoresExp(token, secret, t) ==
    IF token.key # secret THEN "JsonWebTokenError" ELSE ""

\* jwt.verify(token, secret) at time t: the name of the error it throws, or ""
JwtVerifyError(token, secret, t) ==
    IF token.key # secret THEN "JsonWebTokenError"
    ELSE IF t \div 1000 >= token.exp THEN "TokenExpiredError"
    ELSE ""

\* the Authorization header: absent, or a token with or without "Bearer "
NoHeader == [present |-> FALSE, bearer |-> FALSE, token |-> Garbage]

Bearer(token) == [present |-> TRUE, bearer |-> TRUE, token |-> token]

Bare(token) == [present |-> TRUE, bearer |-> FALSE, token |-> token]

\* a gate that lets every request with a header through
AuthMiddlewareNoVerify(header, t) ==
    IF ~header.present THEN Response(401, "no-token", <<>>)
    ELSE Response(0, "next", <<[userId |-> header.token.userId]>>)

\* authMiddleware: the response it sends, or code 0 with req.user for next()
AuthMiddleware(header, t) ==
    IF ~header.present THEN Response(401, "no-token", <<>>)
    ELSE LET error == JwtVerifyError(header.token, JWT_SECRET, t)
         IN IF error = "" THEN Response(0, "next", <<[userId |-> header.token.userId]>>)
            ELSE IF error = "TokenExpiredError" THEN Response(401, "token-expired", <<>>)
            ELSE IF error = "JsonWebTokenError" THEN Response(401, "token-invalid", <<>>)
            ELSE Response(500, "auth-failed", <<>>)

(***************************************************************************)
(* The User collection (src/models/User.js lines 1-88): unique username,   *)
(* unique phone, the password stored as a salted hash.                     *)
(***************************************************************************)
\* /^1[3-9]\d{9}$/.test(phone)
PhoneOk(phone) ==
    /\ Len(phone) = 11
    /\ phone[1] = Digit(1)
    /\ Digit(3) <= phone[2] /\ phone[2] <= Digit(9)
    /\ \A i \in 3..11 : IsDigitCode(phone[i])

\* bcrypt.genSalt(10): the salts of the model
Salts == {1}

\* bcrypt.hash(password, salt)
BcryptHash(password, salt) == [salt |-> salt, digest |-> <<salt, password>>]

\* bcrypt.compare(input, hash): hashes the input with the salt of the hash
BcryptCompare(input, hash) == BcryptHash(input, hash.salt).digest = hash.digest

\* the schema's validators at save(): they see the password as it was set
UserSchemaAccepts(doc, password) ==
    /\ Len(doc.username) >= 2 /\ Len(doc.username) <= 20
    /\ PhoneOk(doc.phone)
    /\ Len(password) >= 6

\* a User collection without unique indexes
UserIndexNone(coll, doc) == FALSE

\* the unique indexes: error code 11000
UserIndexRefuses(coll, doc) ==
    \E x \in coll : x.id # doc.id /\ (x.username = doc.username \/ x.phone = doc.phone)

FindUserByName(coll, username) == {x \in coll : x.username = username}

\* a lookup by phone that finds nobody
FindNoUserByPhone(coll, phone) == {}

FindUserByPhone(coll, phone) == {x \in coll : x.phone = phone}

FindUserById(coll, id) == {x \in coll : x.id = id}

\* the _id of a new document
NewUserId(coll) == Cardinality(coll) + 1

\* what a response shows of a user
UserView(doc) == [id |-> doc.id, username |-> doc.username, phone |-> doc.phone]

(***************************************************************************)
(* The verification codes of the SMS utility (src/unnamed/part_001): a Map *)
(* from phone to {code, expireAt}.                                         *)
(***************************************************************************)
\* 5 * 60 * 1000
CodeLifetime == 5 * 60 * 1000

MapSet(map, key, value) ==
    [k \in DOMAIN map \cup {key} |-> IF k = key THEN value ELSE map[k]]

MapDelete(map, key) == [k \in DOMAIN map \ {key} |-> map[k]]

\* an expiry test that never fires
CodeNeverExpires(t, stored) == FALSE

\* Date.now() > stored.expireAt
CodeExpired(t, stored) == t > stored.expireAt

\* a verification that leaves the code it accepted in the Map
VerifyKeepsCode(map, phone, code, t) ==
    IF phone \notin DOMAIN map
    THEN [success |-> FALSE, message |-> "code-not-requested", codes |-> map]
    ELSE IF CodeExpired(t, map[phone])
    THEN [success |-> FALSE, message |-> "code-expired", codes |-> MapDelete(map, phone)]
    ELSE IF map[phone].code # code
    THEN [success |-> FALSE, message |-> "code-wrong", codes |-> map]
    ELSE [success |-> TRUE, message |-> "code-ok", codes |-> map]

\* verifySmsCode(phone, code) at time t: its result and the Map it leaves
VerifySmsCode(map, phone, code, t) ==
    IF phone \notin DOMAIN map
    THEN [success |-> FALSE, message |-> "code-not-requested", codes |-> map]
    ELSE IF CodeExpired(t, map[phone])
    THEN [success |-> FALSE, message |-> "code-expired", codes |-> MapDelete(map, phone)]
    ELSE IF map[phone].code # code
    THEN [success |-> FALSE, message |-> "code-wrong", codes |-> map]
    ELSE [success |-> TRUE, message |-> "code-ok", codes |-> MapDelete(map, phone)]

(***************************************************************************)
(* Requests to the user routes.                                            *)
(***************************************************************************)
UserSlots == {1, 2}

\* a slot of the user routes: the handler (op), the registration flow, where
\* the handler stands (pc), its local variables, and its response once sent
IdleUser ==
    [op |-> "", flow |-> "", pc |-> "idle", userId |-> 0, username |-> "", phone |-> <<>>,
     password |-> "", newPassword |-> "", code |-> "", user |-> <<>>,
     resp |-> NoResponse]

checkins == <<store, req, daily, settings, sreq, ids>>

clock == <<now, sub, tz>>

\* the response is sent and the handler's local variables are gone
Sent(q, resp) ==
    [IdleUser EXCEPT !.op = q.op, !.flow = q.flow, !.pc = "done", !.userId = q.userId,
         !.phone = q.phone, !.resp = resp]

Answer(r, resp) == ureq' = [ureq EXCEPT ![r] = Sent(ureq[r], resp)]

Goto(r, pc) == ureq' = [ureq EXCEPT ![r] = [@ EXCEPT !.pc = pc]]

\* the handler has returned: the slot is free
CloseUser(r) ==
    /\ ureq[r].pc = "done"
    /\ ureq' = [ureq EXCEPT ![r] = IdleUser]
    /\ UNCHANGED <<users, codes, issued>>
    /\ UNCHANGED checkins
    /\ UNCHANGED clock

(***************************************************************************)
(* POST /api/user/register: flow "plain" is src/modules/user.js (username, *)
(* phone, password), flow "code" is src/unnamed/part_000 lines 481-571     *)
(* (the same with a verification code).                                    *)
(***************************************************************************)
RegisterFlows == {"plain", "code"}

\* the checks before the first await; the code flow verifies the code here
RegisterBegin(r, flow, body) ==
    /\ ureq[r].pc = "idle"
    /\ LET q == [IdleUser EXCEPT !.op = "register", !.flow = flow,
                     !.username = body.username, !.phone = body.phone,
                     !.password = body.password, !.code = body.code]
           missing == \/ body.username = "" \/ body.phone = <<>> \/ body.password = ""
                      \/ (flow = "code" /\ body.code = "")
           verifyResult == VerifySmsCode(codes, body.phone, body.code, DateNow)
       IN IF missing
          THEN /\ ureq' = [ureq EXCEPT ![r] =
                      Sent(q, Response(400, "fields-required", <<>>))]
               /\ codes' = codes
          ELSE IF ~PhoneOk(body.phone)
          THEN /\ ureq' = [ureq EXCEPT ![r] =
                      Sent(q, Response(400, "phone-format", <<>>))]
               /\ codes' = codes
          ELSE IF flow = "code"
          THEN /\ codes' = verifyResult.codes
               /\ ureq' = [ureq EXCEPT ![r] =
                      IF verifyResult.success THEN [q EXCEPT !.pc = "findUsername"]
                      ELSE Sent(q, Response(400, verifyResult.message, <<>>))]
          ELSE /\ ureq' = [ureq EXCEPT ![r] = [q EXCEPT !.pc = "findUsername"]]
               /\ codes' = codes
    /\ UNCHANGED <<users, issued>>
    /\ UNCHANGED checkins
    /\ UNCHANGED clock

\* await User.findOne({username})
RegisterFindUsername(r) ==
    /\ ureq[r].op = "register" /\ ureq[r].pc = "findUsername"
    /\ IF FindUserByName(users, ureq[r].username) # {}
       THEN Answer(r, Response(400, "username-taken", <<>>))
       ELSE Goto(r, "findPhone")
    /\ UNCHANGED <<users, codes, issued>>
    /\ UNCHANGED checkins
    /\ UNCHANGED clock

\* await User.findOne({phone})
RegisterFindPhone(r) ==
    /\ ureq[r].op = "register" /\ ureq[r].pc = "findPhone"
    /\ IF FindUserByPhone(users, ureq[r].phone) # {}
       THEN Answer(r, Response(400, "phone-registered", <<>>))
       ELSE Goto(r, "save")
    /\ UNCHANGED <<users, codes, issued>>
    /\ UNCHANGED checkins
    /\ UNCHANGED clock

\* the catch block: every error is answered with code 500
RegisterCatch(errorCode) == Response(500, "register-failed", <<>>)

\* new User({...}), await user.save() (validation, hashing, insert), the token
\* and the success response, or the catch block
RegisterSave(r, salt) ==
    /\ ureq[r].op = "register" /\ ureq[r].pc = "save"
    /\ LET user == [id |-> NewUserId(users), username |-> ureq[r].username,
                    phone |-> ureq[r].phone,
                    password |-> BcryptHash(ureq[r].password, salt)]
           token == JwtSign(user.id, JWT_SECRET, DateNow)
       IN IF ~UserSchemaAccepts(user, ureq[r].password)
          THEN Answer(r, RegisterCatch(0)) /\ UNCHANGED <<users, issued>>
          ELSE IF UserIndexRefuses(users, user)
          THEN Answer(r, RegisterCatch(11000)) /\ UNCHANGED <<users, issued>>
          ELSE /\ users' = users \cup {user}
               /\ issued' = issued \cup {[token |-> token, at |-> DateNow]}
               /\ Answer(r, Response(200, "registered",
                               <<[user |-> UserView(user), token |-> token]>>))
    /\ UNCHANGED codes
    /\ UNCHANGED checkins
    /\ UNCHANGED clock

(***************************************************************************)
(* POST /api/user/login (src/modules/user.js lines 118-185).               *)
(***************************************************************************)
LoginBegin(r, body) ==
    /\ ureq[r].pc = "idle"
    /\ LET q == [IdleUser EXCEPT !.op = "login", !.phone = body.phone,
                     !.password = body.password]
       IN ureq' = [ureq EXCEPT ![r] =
              IF body.phone = <<>> \/ body.password = ""
              THEN Sent(q, Response(400, "fields-required", <<>>))
              ELSE [q EXCEPT !.pc = "find"]]
    /\ UNCHANGED <<users, codes, issued>>
    /\ UNCHANGED checkins
    /\ UNCHANGED clock

\* the answer to a phone that no user has, told apart from a wrong password
LoginUnknownPhoneTold == Response(404, "phone-unknown", <<>>)

\* if (!user)
LoginUnknownPhone == Response(401, "bad-credentials", <<>>)

\* if (!isMatch)
LoginWrongPassword == Response(401, "bad-credentials", <<>>)

\* await User.findOne({phone})
LoginFind(r) ==
    /\ ureq[r].op = "login" /\ ureq[r].pc = "find"
    /\ LET found == FindUserByPhone(users, ureq[r].phone)
       IN IF found = {} THEN Answer(r, LoginUnknownPhone)
          ELSE ureq' = [ureq EXCEPT ![r] =
                   [@ EXCEPT !.pc = "compare", !.user = <<CHOOSE x \in found : TRUE>>]]
    /\ UNCHANGED <<users, codes, issued>>
    /\ UNCHANGED checkins
    /\ UNCHANGED clock

\* await user.comparePassword(password), the token and the response
LoginCompare(r) ==
    /\ ureq[r].op = "login" /\ ureq[r].pc = "compare"
    /\ LET user == ureq[r].user[1]
           token == JwtSign(user.id, JWT_SECRET, DateNow)
       IN IF ~BcryptCompare(ureq[r].password, user.password)
          THEN Answer(r, LoginWrongPassword) /\ issued' = issued
          ELSE /\ issued' = issued \cup {[token |-> token, at |-> DateNow]}
               /\ Answer(r, Response(200, "logged-in",
                               <<[user |-> UserView(user), token |-> token]>>))
    /\ UNCHANGED <<users, codes>>
    /\ UNCHANGED checkins
    /\ UNCHANGED clock

(***************************************************************************)
(* PUT /api/user/username (src/unnamed/part_000 lines 284-341).            *)
(***************************************************************************)
\* authMiddleware and the checks before the first await
UsernameBegin(r, header, body) ==
    /\ ureq[r].pc = "idle"
    /\ LET auth == AuthMiddleware(header, DateNow)
           q == [IdleUser EXCEPT !.op = "username", !.username = body.username]
       IN ureq' = [ureq EXCEPT ![r] =
              IF auth.code # 0 THEN Sent(q, auth)
              ELSE IF body.username = ""
              THEN Sent([q EXCEPT !.userId = auth.data[1].userId],
                        Response(400, "username-required", <<>>))
              ELSE IF Len(body.username) < 2 \/ Len(body.username) > 20
              THEN Sent([q EXCEPT !.userId = auth.data[1].userId],
                        Response(400, "username-length", <<>>))
              ELSE [q EXCEPT !.pc = "find", !.userId = auth.data[1].userId]]
    /\ UNCHANGED <<users, codes, issued>>
    /\ UNCHANGED checkins
    /\ UNCHANGED clock

\* await User.findOne({username, _id: {$ne: req.user.userId}})
UsernameFind(r) ==
    /\ ureq[r].op = "username" /\ ureq[r].pc = "find"
    /\ IF \E x \in FindUserByName(users, ureq[r].username) : x.id # ureq[r].userId
       THEN Answer(r, Response(400, "username-taken", <<>>))
       ELSE Goto(r, "update")
    /\ UNCHANGED <<users, codes, issued>>
    /\ UNCHANGED checkins
    /\ UNCHANGED clock

\* the catch block: every error is answered with code 500
UsernameCatch(errorCode) == Response(500, "update-failed", <<>>)

\* await User.findByIdAndUpdate(userId, {username}, {new: true}) and the
\* response, or the catch block (duplicate key; user null)
UsernameUpdate(r) ==
    /\ ureq[r].op = "username" /\ ureq[r].pc = "update"
    /\ LET found == FindUserById(users, ureq[r].userId)
       IN IF found = {}
          THEN Answer(r, UsernameCatch(0)) /\ users' = users
          ELSE LET old == CHOOSE x \in found : TRUE
                   user == [old EXCEPT !.username = ureq[r].username]
               IN IF UserIndexRefuses(users, user)
                  THEN Answer(r, UsernameCatch(11000)) /\ users' = users
                  ELSE /\ users' = (users \ {old}) \cup {user}
                       /\ Answer(r, Response(200, "username-changed",
                                       <<[user |-> UserView(user)]>>))
    /\ UNCHANGED <<codes, issued>>
    /\ UNCHANGED checkins
    /\ UNCHANGED clock

(***************************************************************************)
(* PUT /api/user/password (src/unnamed/part_000 lines 349-407).            *)
(***************************************************************************)
\* newPassword.length < 6
NewPasswordTooShort(newPassword) == Len(newPassword) < 6

\* authMiddleware and the checks before the first await
PasswordBegin(r, header, body) ==
    /\ ureq[r].pc = "idle"
    /\ LET auth == AuthMiddleware(header, DateNow)
           q == [IdleUser EXCEPT !.op = "password", !.password = body.oldPassword,
                     !.newPassword = body.newPassword]
       IN ureq' = [ureq EXCEPT ![r] =
              IF auth.code # 0 THEN Sent(q, auth)
              ELSE IF body.oldPassword = "" \/ body.newPassword = ""
              THEN Sent([q EXCEPT !.userId = auth.data[1].userId],
                        Response(400, "passwords-required", <<>>))
              ELSE IF NewPasswordTooShort(body.newPassword)
              THEN Sent([q EXCEPT !.userId = auth.data[1].userId],
                        Response(400, "password-short", <<>>))
              ELSE [q EXCEPT !.pc = "find", !.userId = auth.data[1].userId]]
    /\ UNCHANGED <<users, codes, issued>>
    /\ UNCHANGED checkins
    /\ UNCHANGED clock

\* await User.findById(req.user.userId)
PasswordFind(r) ==
    /\ ureq[r].op = "password" /\ ureq[r].pc = "find"
    /\ LET found == FindUserById(users, ureq[r].userId)
       IN IF found = {} THEN Answer(r, Response(404, "user-not-found", <<>>))
          ELSE ureq' = [ureq EXCEPT ![r] =
                   [@ EXCEPT !.pc = "compare", !.user = <<CHOOSE x \in found : TRUE>>]]
    /\ UNCHANGED <<users, codes, issued>>
    /\ UNCHANGED checkins
    /\ UNCHANGED clock

\* await user.comparePassword(oldPassword)
PasswordCompare(r) ==
    /\ ureq[r].op = "password" /\ ureq[r].pc = "compare"
    /\ IF ~BcryptCompare(ureq[r].password, ureq[r].user[1].password)
       THEN Answer(r, Response(400, "old-password-wrong", <<>>))
       ELSE Goto(r, "save")
    /\ UNCHANGED <<users, codes, issued>>
    /\ UNCHANGED checkins
    /\ UNCHANGED clock

\* user.password = newPassword; await user.save(): validation, hashing, and
\* the update of the password of the document with the user's _id
PasswordSave(r, salt) ==
    /\ ureq[r].op = "password" /\ ureq[r].pc = "save"
    /\ LET loaded == ureq[r].user[1]
           found == FindUserById(users, loaded.id)
       IN IF ~UserSchemaAccepts(loaded, ureq[r].newPassword) \/ found = {}
          THEN Answer(r, Response(500, "update-failed", <<>>)) /\ users' = users
          ELSE LET old == CHOOSE x \in found : TRUE
               IN /\ users' = (users \ {old}) \cup
                        {[old EXCEPT !.password = BcryptHash(ureq[r].newPassword, salt)]}
                  /\ Answer(r, Response(200, "password-changed", <<>>))
    /\ UNCHANGED <<codes, issued>>
    /\ UNCHANGED checkins
    /\ UNCHANGED clock

(***************************************************************************)
(* SpecUsers: two requests at a time to the user routes, from an empty     *)
(* User collection.                                                        *)
(***************************************************************************)
PhoneA == <<49, 51, 56>> \o [i \in 1..8 |-> Digit(0)]

PhoneB == <<49, 51, 57>> \o [i \in 1..8 |-> Digit(0)]

Usernames == {"ann", "bob"}

Passwords == {"secret1", "hunter22"}

\* the bodies of register: valid ones, and one without a username
RegisterBodies ==
    {[username |-> n, phone |-> p, password |-> "secret1", code |-> ""] :
        n \in Usernames \cup {""}, p \in {PhoneA, PhoneB}}

LoginBodies == {[phone |-> p, password |-> w] : p \in {PhoneA, PhoneB}, w \in Passwords}

UsernameBodies == {[username |-> n] : n \in Usernames \cup {"x"}}

PasswordBodies ==
    {[oldPassword |-> o, newPassword |-> n] : o \in Passwords, n \in Passwords \cup {"12345"}}

\* the headers a client can send: none, or a token it was handed
ClientHeaders == {NoHeader} \cup {Bearer(i.token) : i \in issued}

InitUsers ==
    /\ store = EmptyBag
    /\ req = [r \in Slots |-> IdleReq]
    /\ now = StartNow
    /\ tz = "UTC"
    /\ sub = 0 /\ users = {} /\ codes = <<>> /\ issued = {} /\ daily = EmptyBag
    /\ ureq = [r \in UserSlots |-> IdleUser]
    /\ NoDocs

NextUsers ==
    \/ \E r \in UserSlots, body \in RegisterBodies : RegisterBegin(r, "plain", body)
    \/ \E r \in UserSlots : RegisterFindUsername(r)
    \/ \E r \in UserSlots : RegisterFindPhone(r)
    \/ \E r \in UserSlots, salt \in Salts : RegisterSave(r, salt)
    \/ \E r \in UserSlots, body \in LoginBodies : LoginBegin(r, body)
    \/ \E r \in UserSlots : LoginFind(r)
    \/ \E r \in UserSlots : LoginCompare(r)
    \/ \E r \in UserSlots, h \in ClientHeaders, body \in UsernameBodies :
          UsernameBegin(r, h, body)
    \/ \E r \in UserSlots : UsernameFind(r)
    \/ \E r \in UserSlots : UsernameUpdate(r)
    \/ \E r \in UserSlots, h \in ClientHeaders, body \in PasswordBodies :
          PasswordBegin(r, h, body)
    \/ \E r \in UserSlots : PasswordFind(r)
    \/ \E r \in UserSlots : PasswordCompare(r)
    \/ \E r \in UserSlots, salt \in Salts : PasswordSave(r, salt)
    \/ \E r \in UserSlots : CloseUser(r)

SpecUsers == InitUsers /\ [][NextUsers]_vars

(***************************************************************************)
(* Properties of the user routes, checked under SpecUsers.                 *)
(***************************************************************************)
PhoneHeld(phone) == \E x \in users : x.phone = phone

NameHeld(username) == \E x \in users : x.username = username

RegisterStep(r) == ureq[r].op = "register" /\ ureq[r].pc # "done" /\ ureq'[r] # ureq[r]

\* C13: a register call that looks up its username while an existing user
\* holds it, or its phone while an existing user holds it, is answered with the
\* conflict (code 400); no register call that completes while its phone or its
\* username is held creates a user, and the existing users stay as they are.
C13_RegisterDuplicateRejected ==
    [][\A r \in UserSlots :
          RegisterStep(r) =>
              /\ (ureq[r].pc = "findUsername" /\ NameHeld(ureq[r].username))
                 => /\ ureq'[r].pc = "done" /\ ureq'[r].resp.code = 400
                    /\ ureq'[r].resp.message = "username-taken"
              /\ (ureq[r].pc = "findPhone" /\ PhoneHeld(ureq[r].phone))
                 => /\ ureq'[r].pc = "done" /\ ureq'[r].resp.code = 400
                    /\ ureq'[r].resp.message = "phone-registered"
              /\ (/\ ureq[r].pc \in {"findUsername", "findPhone", "save"}
                  /\ PhoneHeld(ureq[r].phone) \/ NameHeld(ureq[r].username))
                 => /\ users' = users
                    /\ ureq'[r].pc = "done" => ureq'[r].resp.code # 200]_vars

\* one register refused for its phone and one for its username, one user stored
C13_Witness ==
    /\ Cardinality(users) = 1
    /\ \E r1, r2 \in UserSlots :
          /\ ureq[r1].op = "register" /\ ureq[r1].resp.message = "phone-registered"
          /\ ureq[r2].op = "register" /\ ureq[r2].resp.message = "username-taken"

\* C14: a request whose write is refused by a unique index of the User
\* collection (a register that saves a phone or a username taken since its
\* lookups, a changeUsername that sets a name taken since its lookup) is
\* answered with the conflict, code 400, never with code 500.
C14_UniquenessLoserGetsConflict ==
    [][\A r \in UserSlots :
          /\ (/\ ureq[r].op = "register" /\ ureq[r].pc = "save" /\ ureq'[r].pc = "done"
              /\ PhoneHeld(ureq[r].phone) \/ NameHeld(ureq[r].username))
             => ureq'[r].resp.code = 400
          /\ (/\ ureq[r].op = "username" /\ ureq[r].pc = "update" /\ ureq'[r].pc = "done"
              /\ \E x \in users : x.id # ureq[r].userId /\ x.username = ureq[r].username)
             => ureq'[r].resp.code = 400]_vars

\* the gate lets the token through, as the user with this id
Accepted(token, id) ==
    LET auth == AuthMiddleware(Bearer(token), DateNow)
    IN auth.code = 0 /\ auth.data[1].userId = id

\* C15: a register with a valid username, phone and password stores a user
\* whose password hash is that of the password given; a login with the phone of
\* a user and the password its stored hash was made of (the registered one, if
\* it was not changed since) succeeds; and the token either of them returns is
\* accepted by the Auth Gate and resolves to the identifier of that user.
C15_RegisterThenLogin ==
    [][\A r \in UserSlots :
          /\ (ureq[r].op = "register" /\ ureq[r].pc = "save" /\ ureq'[r].resp.code = 200)
             => \E x \in users' \ users :
                   /\ x.phone = ureq[r].phone /\ x.username = ureq[r].username
                   /\ x.password = BcryptHash(ureq[r].password, x.password.salt)
                   /\ ureq'[r].resp.data[1].user = UserView(x)
                   /\ Accepted(ureq'[r].resp.data[1].token, x.id)
          /\ (/\ ureq[r].op = "login" /\ ureq[r].pc = "find" /\ ureq'[r] # ureq[r]
              /\ PhoneHeld(ureq[r].phone))
             => ureq'[r].pc = "compare" /\ ureq'[r].user[1].phone = ureq[r].phone
          /\ (/\ ureq[r].op = "login" /\ ureq[r].pc = "compare" /\ ureq'[r].pc = "done"
              /\ ureq[r].user[1].password
                     = BcryptHash(ureq[r].password, ureq[r].user[1].password.salt))
             => /\ ureq'[r].resp.code = 200
                /\ ureq'[r].resp.data[1].user.id = ureq[r].user[1].id
                /\ Accepted(ureq'[r].resp.data[1].token, ureq[r].user[1].id)]_vars

\* a register and a later login of the same user have both succeeded
C15_Witness ==
    \E r1, r2 \in UserSlots :
        /\ ureq[r1].op = "register" /\ ureq[r1].resp.code = 200
        /\ ureq[r2].op = "login" /\ ureq[r2].resp.code = 200
        /\ ureq[r1].resp.data[1].user.id = ureq[r2].resp.data[1].user.id
        /\ \E i \in issued : i.token = ureq[r2].resp.data[1].token

\* C16: login gives the same response (code 401, the same message, no data)
\* to a phone that no user has as to a phone that a user has with a password
\* that does not match the stored hash.
C16_LoginRefusalsAlike ==
    [][\A r \in UserSlots :
          (ureq[r].op = "login" /\ ureq'[r].pc = "done" /\ ureq[r].pc # "done")
          => /\ (ureq[r].pc = "find" /\ ~PhoneHeld(ureq[r].phone))
                => ureq'[r].resp = [LoginWrongPassword EXCEPT !.data = <<>>]
             /\ (/\ ureq[r].pc = "compare"
                 /\ ureq[r].user[1].password
                        # BcryptHash(ureq[r].password, ureq[r].user[1].password.salt))
                => ureq'[r].resp = [LoginUnknownPhone EXCEPT !.data = <<>>]
             /\ ureq'[r].resp.code = 401 => ureq'[r].resp.data = <<>>]_vars

\* one login was refused for a phone nobody has, another for a wrong password
C16_Witness ==
    \E r1, r2 \in UserSlots :
        /\ ureq[r1].op = "login" /\ ureq[r1].pc = "done" /\ ureq[r1].resp.code = 401
        /\ ~PhoneHeld(ureq[r1].phone)
        /\ ureq[r2].op = "login" /\ ureq[r2].pc = "done" /\ ureq[r2].resp.code = 401
        /\ PhoneHeld(ureq[r2].phone)
        /\ ureq[r1].resp = ureq[r2].resp

\* the stored hash was made of this password
HashOf(password, hashed) == hashed = BcryptHash(password, hashed.salt)

\* the stored password of a user changes only in the save step of a
\* changePassword call of that user whose old password is the current one and
\* whose new password has at least 6 characters
ChangeIsVerified ==
    \A x \in users : \A y \in users' :
        (x.id = y.id /\ x.password # y.password)
        => \E r \in UserSlots :
              /\ ureq[r].op = "password" /\ ureq[r].pc = "save" /\ ureq[r].userId = x.id
              /\ ureq'[r].resp.code = 200
              /\ HashOf(ureq[r].password, x.password)
              /\ Len(ureq[r].newPassword) >= 6
              /\ HashOf(ureq[r].newPassword, y.password)

\* a changePassword call with a too short new password or a wrong old
\* password fails, and a failed call changes no user
FailureKeepsPassword ==
    \A r \in UserSlots :
        (ureq[r].op = "password" /\ ureq'[r].pc = "done" /\ ureq[r].pc # "done")
        => /\ (ureq[r].pc = "compare" /\ ~HashOf(ureq[r].password, ureq[r].user[1].password))
              => ureq'[r].resp.code \notin {0, 200}
           /\ ureq'[r].resp.code # 200 => users' = users
           /\ ureq'[r].resp.code = 200 => Len(ureq[r].newPassword) >= 6

\* after a successful call the stored hash is that of the new password and
\* not that of the old one, which is what login compares against
LoginFollowsChange ==
    \A r \in UserSlots :
        (ureq[r].op = "password" /\ ureq[r].pc = "save" /\ ureq'[r].resp.code = 200)
        => \E y \in users' :
              /\ y.id = ureq[r].userId
              /\ BcryptCompare(ureq[r].newPassword, y.password)
              /\ ~BcryptCompare(ureq[r].password, y.password)

\* C17: a user's stored password changes only through a changePassword call
\* that supplies the correct current password and a new password of at least
\* 6 characters; a call with a wrong old password or a too short new password
\* fails and leaves the stored password unchanged; after a successful call
\* login succeeds with the new password and fails with the old one.
C17_PasswordChangeVerified ==
    [][ChangeIsVerified /\ FailureKeepsPassword /\ LoginFollowsChange]_vars

(***************************************************************************)
(* The routes behind authMiddleware: router.use(authMiddleware) of the     *)
(* check-in router (src/models/User.js lines 484-486) and the middleware   *)
(* argument of the daily routes run the gate before the handler, which     *)
(* reads req.user.userId.                                                  *)
(***************************************************************************)
\* the gate has answered: the handler does not run
Refuse(r, auth) ==
    /\ req[r].pc = "idle"
    /\ req' = [req EXCEPT ![r] = [IdleReq EXCEPT !.op = "gate", !.pc = "done", !.resp = auth]]
    /\ UNCHANGED <<store, now, tz>>
    /\ UNCHANGED others

\* POST /api/checkin
GatedCheckIn(r, header, body) ==
    LET auth == AuthMiddleware(header, DateNow)
    IN IF auth.code = 0 THEN CheckInBegin(r, auth.data[1].userId, body) ELSE Refuse(r, auth)

\* GET /api/checkin/today
GatedToday(r, header) ==
    LET auth == AuthMiddleware(header, DateNow)
    IN IF auth.code = 0 THEN TodayStatus(r, auth.data[1].userId) ELSE Refuse(r, auth)

\* GET /api/daily/:date
GatedDailyGet(r, header, date) ==
    LET auth == AuthMiddleware(header, DateNow)
    IN IF auth.code = 0 THEN DailyGet(r, auth.data[1].userId, date) ELSE Refuse(r, auth)

(***************************************************************************)
(* SpecAuth: one request at a time to the check-in and daily routes and    *)
(* one to the user routes, with every kind of Authorization header, while  *)
(* the clock advances by half the lifetime of a token, MaxLeaps times.     *)
(***************************************************************************)
MaxLeaps == 2

\* half of the 7 days of a token, in hours
LeapHours == (TokenLifetime \div 3600) \div 2

\* the clock advances by so many hours
Leap(hours, last) ==
    /\ now + hours <= last
    /\ now' = now + hours
    /\ UNCHANGED <<store, req, tz>>
    /\ UNCHANGED others

\* a token a client makes up for a user: it has no signature of the server
ForgedFor(u) ==
    [userId |-> u, iat |-> 0, exp |-> 2 * TokenLifetime, key |-> "guess"]

\* no header, no token at all, made-up tokens, and the tokens handed out, with
\* and without "Bearer ", and with another signature
AuthHeaders ==
    {NoHeader, Bearer(Garbage)} \cup {Bearer(ForgedFor(u)) : u \in Users}
    \cup {Bearer(i.token) : i \in issued} \cup {Bare(i.token) : i \in issued}
    \cup {Bearer([i.token EXCEPT !.key = "guess"]) : i \in issued}

AuthRegisterBodies ==
    {[username |-> "ann", phone |-> PhoneA, password |-> "secret1", code |-> ""],
     [username |-> "bob", phone |-> PhoneB, password |-> "secret1", code |-> ""]}

\* the date the requests name: the one of the start of the clock
AuthDate == ToISODate(StartNow)

AuthCheckInBodies == {BodyOf("completed", AuthDate)}

InitAuth ==
    /\ store = EmptyBag /\ daily = EmptyBag
    /\ req = [r \in Slots |-> IdleReq]
    /\ ureq = [r \in UserSlots |-> IdleUser]
    /\ now = StartNow /\ sub = 0 /\ tz = "UTC"
    /\ users = {} /\ codes = <<>> /\ issued = {}
    /\ NoDocs

NextAuth ==
    \/ \E body \in AuthRegisterBodies : RegisterBegin(1, "plain", body)
    \/ RegisterFindUsername(1)
    \/ RegisterFindPhone(1)
    \/ \E salt \in Salts : RegisterSave(1, salt)
    \/ \E header \in AuthHeaders : UsernameBegin(1, header, [username |-> "cat"])
    \/ UsernameFind(1)
    \/ UsernameUpdate(1)
    \/ CloseUser(1)
    \/ \E header \in AuthHeaders, body \in AuthCheckInBodies : GatedCheckIn(1, header, body)
    \/ CheckInFind(1)
    \/ CheckInSave(1)
    \/ \E header \in AuthHeaders : GatedToday(1, header)
    \/ \E header \in AuthHeaders : GatedDailyGet(1, header, AuthDate)
    \/ Close(1)
    \/ Leap(LeapHours, StartNow + LeapHours * MaxLeaps)

SpecAuth == InitAuth /\ [][NextAuth]_vars

\* the header carries a token signed with the server secret and not expired
HeaderGood(header) ==
    /\ header.present
    /\ header.token.key = JWT_SECRET
    /\ DateNow \div 1000 < header.token.exp

\* the handler has run, for the user of the token
RanAs(q, header) ==
    /\ q.op # "gate" /\ q.userId = header.token.userId
    /\ q.resp.message \notin {"no-token", "token-expired", "token-invalid", "auth-failed"}

\* the request was answered with an authentication error and nothing changed
Unauthenticated(q) ==
    /\ q.pc = "done" /\ q.resp.code = 401 /\ q.resp.data = <<>>
    /\ UNCHANGED <<store, daily, users, codes, issued>>

\* C18: for the endpoints behind the gate (POST /api/checkin, GET
\* /api/checkin/today, GET /api/daily/:date, PUT /api/user/username), the
\* handler runs only for a request whose token verifies against the server
\* secret and has not expired, and it runs with the user identifier of that
\* token; a request with no token, an expired token or an invalid token is
\* answered with code 401 and changes no stored data.
C18_GateBeforeHandler ==
    [][/\ (req[1].pc = "idle" /\ req'[1].op \in {"checkin", "gate"})
          => \A header \in AuthHeaders, body \in AuthCheckInBodies :
                GatedCheckIn(1, header, body)
                => IF HeaderGood(header) THEN RanAs(req'[1], header)
                   ELSE Unauthenticated(req'[1])
       /\ (req[1].pc = "idle" /\ req'[1].op \in {"today", "gate"})
          => \A header \in AuthHeaders :
                GatedToday(1, header)
                => IF HeaderGood(header) THEN RanAs(req'[1], header)
                   ELSE Unauthenticated(req'[1])
       /\ (req[1].pc = "idle" /\ req'[1].op \in {"daily", "gate"})
          => \A header \in AuthHeaders :
                GatedDailyGet(1, header, AuthDate)
                => IF HeaderGood(header) THEN RanAs(req'[1], header)
                   ELSE Unauthenticated(req'[1])
       /\ (ureq[1].pc = "idle" /\ ureq'[1].op = "username")
          => \A header \in AuthHeaders :
                UsernameBegin(1, header, [username |-> "cat"])
                => IF HeaderGood(header) THEN RanAs(ureq'[1], header)
                   ELSE Unauthenticated(ureq'[1])]_vars

\* a request with an expired token was refused, one with a token made up for
\* a user was refused, and with a valid token a handler has written
C18_Witness ==
    /\ req[1].op = "gate" /\ req[1].resp.message = "token-expired"
    /\ ureq[1].op = "username" /\ ureq[1].resp.code = 200
    /\ store # EmptyBag

(***************************************************************************)
(* SpecTokens: one user registers, logs in, changes username and password, *)
(* one request at a time, while the clock moves to instants just after the *)
(* start and around 7 days after it; Date.now() is in milliseconds, the    *)
(* iat and exp of a token in whole seconds.                                *)
(***************************************************************************)
\* 7 days in milliseconds
LifetimeMs == TokenLifetime * 1000

\* milliseconds from the start of the clock
Instants == {500, LifetimeMs - 500, LifetimeMs + 200, LifetimeMs + 700}

\* the clock has advanced to the instant t
ClockTo(t) ==
    /\ DateNow < t
    /\ now' = StartNow + t \div 3600000
    /\ sub' = t % 3600000
    /\ UNCHANGED <<store, req, tz, users, codes, daily, issued, ureq>>
    /\ UNCHANGED docs

TokenRegisterBodies ==
    {[username |-> "ann", phone |-> PhoneA, password |-> "secret1", code |-> ""]}

TokenLoginBodies == {[phone |-> PhoneA, password |-> w] : w \in Passwords}

TokenPasswordBodies == {[oldPassword |-> "secret1", newPassword |-> "hunter22"]}

NextTokens ==
    \/ \E body \in TokenRegisterBodies : RegisterBegin(1, "plain", body)
    \/ RegisterFindUsername(1)
    \/ RegisterFindPhone(1)
    \/ \E salt \in Salts : RegisterSave(1, salt)
    \/ \E body \in TokenLoginBodies : LoginBegin(1, body)
    \/ LoginFind(1)
    \/ LoginCompare(1)
    \/ \E header \in ClientHeaders : UsernameBegin(1, header, [username |-> "cat"])
    \/ UsernameFind(1)
    \/ UsernameUpdate(1)
    \/ \E header \in ClientHeaders, body \in TokenPasswordBodies :
          PasswordBegin(1, header, body)
    \/ PasswordFind(1)
    \/ PasswordCompare(1)
    \/ \E salt \in Salts : PasswordSave(1, salt)
    \/ CloseUser(1)
    \/ \E t \in Instants : ClockTo(t)

SpecTokens == InitAuth /\ [][NextTokens]_vars

\* the gate refuses the token as expired
RefusedExpired(token) ==
    AuthMiddleware(Bearer(token), DateNow) = Response(401, "token-expired", <<>>)

\* C19 as stated: a token issued by register or login is accepted by the gate
\* at every moment before 7 days after its issuance, whatever happened in
\* between, and refused as expired at every moment after that.
C19_SevenDaysFromIssuance ==
    \A i \in issued :
        /\ DateNow < i.at + LifetimeMs => Accepted(i.token, i.token.userId)
        /\ DateNow > i.at + LifetimeMs => RefusedExpired(i.token)

\* C19, amended: a token is accepted at every moment before the whole second
\* that lies 7 days after the whole second of its issuance, whatever happened
\* in between, and refused as expired from that second on.
C19_SevenDaysFromIssuedSecond ==
    \A i \in issued :
        IF DateNow \div 1000 < i.at \div 1000 + TokenLifetime
        THEN Accepted(i.token, i.token.userId)
        ELSE RefusedExpired(i.token)

\* half a second before the 7 days of a token are over, after its user has
\* logged in again and changed the password; and a token expired
C19_Witness ==
    /\ \E i, j \in issued :
          /\ i.at = 0 /\ j.at = 500 /\ i.token.userId = j.token.userId
          /\ \E x \in users : x.id = i.token.userId /\ HashOf("hunter22", x.password)
    /\ DateNow = LifetimeMs + 200

(***************************************************************************)
(* POST /api/user/send-code (src/unnamed/part_000 lines 36-75) and         *)
(* sendSmsCode (src/unnamed/part_001 lines 52-141): the code is generated, *)
(* the request to the SMS provider is sent, and the code is stored when    *)
(* the provider answers OK.                                                *)
(***************************************************************************)
\* the checks of the phone, generateCode() and the request to the provider
SendCodeBegin(r, body, code) ==
    /\ ureq[r].pc = "idle"
    /\ LET q == [IdleUser EXCEPT !.op = "sendCode", !.phone = body.phone, !.code = code]
       IN ureq' = [ureq EXCEPT ![r] =
              IF body.phone = <<>> THEN Sent(q, Response(400, "phone-required", <<>>))
              ELSE IF ~PhoneOk(body.phone) THEN Sent(q, Response(400, "phone-format", <<>>))
              ELSE [q EXCEPT !.pc = "sms"]]
    /\ UNCHANGED <<users, codes, issued>>
    /\ UNCHANGED checkins
    /\ UNCHANGED clock

\* res.on('end'): result.Code === 'OK' stores the code for 5 minutes from now
SendCodeReply(r, ok) ==
    /\ ureq[r].op = "sendCode" /\ ureq[r].pc = "sms"
    /\ IF ok
       THEN /\ codes' = MapSet(codes, ureq[r].phone,
                            [code |-> ureq[r].code, expireAt |-> DateNow + CodeLifetime])
            /\ Answer(r, Response(200, "code-sent", <<>>))
       ELSE /\ codes' = codes
            /\ Answer(r, Response(400, "send-failed", <<>>))
    /\ UNCHANGED <<users, issued>>
    /\ UNCHANGED checkins
    /\ UNCHANGED clock

(***************************************************************************)
(* POST /api/user/register with a phone and a code only (src/unnamed/      *)
(* part_000 lines 77-170), flow "phone": the username is generated, the    *)
(* password is '123456'.                                                   *)
(***************************************************************************)
\* generateRandomUsername(): the prefix and a number of 8 digits (9 * 10^7
\* names); two of them stand for all
GeneratedNames == {"user10000000", "user99999999"}

DefaultPassword == "123456"

\* the checks before the first await, the verification of the code included
PhoneRegisterBegin(r, body) ==
    /\ ureq[r].pc = "idle"
    /\ LET q == [IdleUser EXCEPT !.op = "register", !.flow = "phone",
                     !.phone = body.phone, !.code = body.code,
                     !.password = DefaultPassword]
           verifyResult == VerifySmsCode(codes, body.phone, body.code, DateNow)
       IN IF body.phone = <<>> \/ body.code = ""
          THEN /\ ureq' = [ureq EXCEPT ![r] =
                      Sent(q, Response(400, "fields-required", <<>>))]
               /\ codes' = codes
          ELSE IF ~PhoneOk(body.phone)
          THEN /\ ureq' = [ureq EXCEPT ![r] =
                      Sent(q, Response(400, "phone-format", <<>>))]
               /\ codes' = codes
          ELSE /\ codes' = verifyResult.codes
               /\ ureq' = [ureq EXCEPT ![r] =
                      IF verifyResult.success THEN [q EXCEPT !.pc = "phoneTaken"]
                      ELSE Sent(q, Response(400, verifyResult.message, <<>>))]
    /\ UNCHANGED <<users, issued>>
    /\ UNCHANGED checkins
    /\ UNCHANGED clock

\* await User.findOne({phone}), and the first generated username
PhoneRegisterFindPhone(r, name) ==
    /\ ureq[r].op = "register" /\ ureq[r].pc = "phoneTaken"
    /\ IF FindUserByPhone(users, ureq[r].phone) # {}
       THEN Answer(r, Response(400, "phone-registered", <<>>))
       ELSE ureq' = [ureq EXCEPT ![r] = [@ EXCEPT !.pc = "nameTaken", !.username = name]]
    /\ UNCHANGED <<users, codes, issued>>
    /\ UNCHANGED checkins
    /\ UNCHANGED clock

\* while (await User.findOne({username})) username = generateRandomUsername()
PhoneRegisterFindName(r, name) ==
    /\ ureq[r].op = "register" /\ ureq[r].pc = "nameTaken"
    /\ IF FindUserByName(users, ureq[r].username) # {}
       THEN ureq' = [ureq EXCEPT ![r] = [@ EXCEPT !.username = name]]
       ELSE Goto(r, "save")
    /\ UNCHANGED <<users, codes, issued>>
    /\ UNCHANGED checkins
    /\ UNCHANGED clock

(***************************************************************************)
(* SpecSms: two requests at a time, send-code and register with a code,    *)
(* for one phone, while the clock moves to the instants around 5 minutes   *)
(* after the start and after that.                                         *)
(***************************************************************************)
SmsCodes == {"111111", "222222"}

SmsInstants == {1, CodeLifetime, CodeLifetime + 1, CodeLifetime + 2}

SmsPhoneBodies == {[phone |-> PhoneA]}

SmsRegisterBodies ==
    {[username |-> n, phone |-> PhoneA, password |-> "secret1", code |-> c] :
        n \in Usernames, c \in SmsCodes}

SmsPhoneRegisterBodies == {[phone |-> PhoneA, code |-> c] : c \in SmsCodes}

NextSms ==
    \/ \E r \in UserSlots, body \in SmsPhoneBodies, code \in SmsCodes :
          SendCodeBegin(r, body, code)
    \/ \E r \in UserSlots, ok \in BOOLEAN : SendCodeReply(r, ok)
    \/ \E r \in UserSlots, body \in SmsRegisterBodies : RegisterBegin(r, "code", body)
    \/ \E r \in UserSlots, body \in SmsPhoneRegisterBodies : PhoneRegisterBegin(r, body)
    \/ \E r \in UserSlots, name \in GeneratedNames : PhoneRegisterFindPhone(r, name)
    \/ \E r \in UserSlots, name \in GeneratedNames : PhoneRegisterFindName(r, name)
    \/ \E r \in UserSlots : RegisterFindUsername(r)
    \/ \E r \in UserSlots : RegisterFindPhone(r)
    \/ \E r \in UserSlots, salt \in Salts : RegisterSave(r, salt)
    \/ \E r \in UserSlots : CloseUser(r)
    \/ \E t \in SmsInstants : ClockTo(t)

SpecSms == InitAuth /\ [][NextSms]_vars

\* the moment the stored code was issued: when the provider's OK stored it
IssuedAt(stored) == stored.expireAt - CodeLifetime

\* an entry appears or changes only when a send-code request succeeds, and it
\* is then the code of that request, issued now
OnlySendCodeStores ==
    \A p \in DOMAIN codes' :
        (p \notin DOMAIN codes \/ codes'[p] # codes[p])
        => \E r \in UserSlots :
              /\ ureq[r].op = "sendCode" /\ ureq[r].pc = "sms" /\ ureq[r].phone = p
              /\ ureq'[r].resp.code = 200
              /\ codes'[p].code = ureq[r].code /\ IssuedAt(codes'[p]) = DateNow

\* a registration passes the verification exactly with the stored code of its
\* phone within 5 minutes of its issuance, and that removes the entry; so does
\* an attempt after the 5 minutes; any other attempt leaves the Map as it is
VerifyOnceInTime ==
    \A r \in UserSlots :
        (ureq[r].pc = "idle" /\ ureq'[r].op = "register")
        => \A body \in SmsRegisterBodies :
              RegisterBegin(r, "code", body)
              => LET p == body.phone
                     had == p \in DOMAIN codes
                     late == had /\ DateNow - IssuedAt(codes[p]) > CodeLifetime
                     valid == had /\ ~late /\ codes[p].code = body.code
                 IN /\ (ureq'[r].pc = "findUsername") <=> valid
                    /\ ~valid => ureq'[r].pc = "done" /\ ureq'[r].resp.code = 400
                    /\ (valid \/ late) => p \notin DOMAIN codes'
                    /\ ~(valid \/ late) => codes' = codes

\* C20: after a successful sendCode(phone), verifyCode(phone, code) succeeds
\* at most once, only with the code most recently issued for that phone and
\* only within 5 minutes of its issuance; a successful verification or an
\* attempt after expiry removes the entry, so every later verifyCode for the
\* phone fails until sendCode succeeds again, in every interleaving of the
\* requests.
C20_CodeSingleUse ==
    [][OnlySendCodeStores /\ VerifyOnceInTime]_vars

\* of two registrations in flight with the code of one send-code, one has
\* passed the verification and the other was told that no code is stored
C20_Witness ==
    \E r1, r2 \in UserSlots :
        /\ ureq[r1].op = "register" /\ ureq[r1].pc = "findUsername"
        /\ ureq[r2].op = "register" /\ ureq[r2].pc = "done"
        /\ ureq[r2].resp.message = "code-not-requested"
        /\ ureq[r1].phone = ureq[r2].phone
        /\ codes = <<>>

(***************************************************************************)
(* The settings routes (src/routes/settings.js) and the writing daily      *)
(* routes (src/routes/daily.js).  A UserSettings document is {userId,      *)
(* presetPrinciples, customPrinciples, tradingHomework, tradingPlans}, one *)
(* per user (unique index); an item of a list is {id, title, content}, its *)
(* id being the _id that Mongoose gives a subdocument when it is made.     *)
(* The texts of the default items are named.  Every handler is two steps:  *)
(* the checks of the request with the findOne and what follows it up to    *)
(* the next await, and the save with the response.  A save of a document   *)
(* that was loaded writes the paths the handler has modified.              *)
(***************************************************************************)
MaxIds == 13

DEFAULT_HOMEWORK ==
    <<[title |-> "emotion-cycle", content |-> "limit-up counts"],
      [title |-> "policy", content |-> ""],
      [title |-> "sector", content |-> ""]>>

DEFAULT_PLANS ==
    <<[title |-> "candidates", content |-> ""],
      [title |-> "entry-plan", content |-> ""],
      [title |-> "exit-plan", content |-> ""]>>

\* the subdocuments made of {title, content} objects: each gets a new _id
WithIds(items, first) ==
    [i \in 1..Len(items) |->
        [id |-> first + i - 1, title |-> items[i].title, content |-> items[i].content]]

\* new UserSettings({userId, tradingHomework: DEFAULT_HOMEWORK, tradingPlans:
\* DEFAULT_PLANS}), the principles by the schema's defaults
NewSettings(u, first) ==
    [userId |-> u,
     presetPrinciples |-> <<[index |-> 0, isSelected |-> TRUE]>>,
     customPrinciples |-> <<>>,
     tradingHomework |-> WithIds(DEFAULT_HOMEWORK, first),
     tradingPlans |-> WithIds(DEFAULT_PLANS, first + Len(DEFAULT_HOMEWORK))]

\* UserSettings.findOne({userId})
FindSettings(coll, u) == {d \in coll : d.userId = u}

\* a slot of the settings and daily routes: the handler (op), where it stands
\* (pc), the user of the token, the date parameter, the list the handler works
\* on, the id parameter (0 without one), the document in memory, whether it is new, the paths modified, the
\* response to send when the save succeeds, and the response once sent
IdleDoc ==
    [op |-> "", pc |-> "idle", userId |-> 0, date |-> <<>>, list |-> "", item |-> 0,
     doc |-> <<>>, isNew |-> FALSE, modified |-> {}, reply |-> NoResponse, resp |-> NoResponse]

DocSent(q, resp) ==
    [IdleDoc EXCEPT !.op = q.op, !.pc = "done", !.userId = q.userId, !.date = q.date,
         !.list = q.list, !.item = q.item, !.resp = resp]

\* catch (error): every error of a handler is answered with code 500
ServerError == Response(500, "server-error", <<>>)

\* the data of the response of GET /settings
SettingsView(d) ==
    [presetPrinciples |-> d.presetPrinciples, customPrinciples |-> d.customPrinciples,
     tradingHomework |-> d.tradingHomework, tradingPlans |-> d.tradingPlans]

\* a GET /settings that leaves an empty list empty
BackfillNothing(d, first) == [doc |-> d, modified |-> {}, next |-> first]

\* the defaults in the place of an empty list of a stored document
Backfill(d, first) ==
    LET h == d.tradingHomework = <<>>
        p == d.tradingPlans = <<>>
        afterH == IF h THEN first + Len(DEFAULT_HOMEWORK) ELSE first
    IN [doc |-> [d EXCEPT
                   !.tradingHomework = IF h THEN WithIds(DEFAULT_HOMEWORK, first) ELSE @,
                   !.tradingPlans = IF p THEN WithIds(DEFAULT_PLANS, afterH) ELSE @],
        modified |-> (IF h THEN {"tradingHomework"} ELSE {})
                     \cup (IF p THEN {"tradingPlans"} ELSE {}),
        next |-> IF p THEN afterH + Len(DEFAULT_PLANS) ELSE afterH]

\* GET /settings up to the save, or to the response when nothing is to save
SettingsGetLoad(r, u) ==
    /\ sreq[r].pc = "idle"
    /\ LET found == FindSettings(settings, u)
           q == [IdleDoc EXCEPT !.op = "getSettings", !.userId = u]
       IN IF found = {}
          THEN /\ sreq' = [sreq EXCEPT ![r] =
                      [q EXCEPT !.pc = "save", !.isNew = TRUE, !.doc = <<NewSettings(u, ids)>>,
                          !.reply = Response(200, "ok", <<SettingsView(NewSettings(u, ids))>>)]]
               /\ ids' = ids + Len(DEFAULT_HOMEWORK) + Len(DEFAULT_PLANS)
          ELSE LET filled == Backfill(CHOOSE d \in found : TRUE, ids)
               IN /\ ids' = filled.next
                  /\ sreq' = [sreq EXCEPT ![r] =
                         IF filled.modified = {}
                         THEN DocSent(q, Response(200, "ok", <<SettingsView(filled.doc)>>))
                         ELSE [q EXCEPT !.pc = "save", !.doc = <<filled.doc>>,
                                  !.modified = filled.modified,
                                  !.reply = Response(200, "ok", <<SettingsView(filled.doc)>>)]]
    /\ ids' <= MaxIds
    /\ UNCHANGED <<settings, daily>>
    /\ UNCHANGED <<store, req, now, tz, sub, users, codes, issued, ureq>>

\* the stored document with the modified paths of the document in memory
Merge(stored, doc, modified) ==
    [f \in DOMAIN stored |-> IF f \in modified THEN doc[f] ELSE stored[f]]

\* the lookup of the parent document without the user
ParentOfAnyone(u, date) ==
    IF date = <<>> THEN settings ELSE {d \in DOMAIN daily : d.date = date}

\* the parent document of a request: the settings of the user, or the daily
\* record of the user and the date
Parent(u, date) ==
    IF date = <<>> THEN FindSettings(settings, u) ELSE DOMAIN FindOne(daily, u, date)

\* the unique indexes {userId: 1} and {userId: 1, date: 1} refuse an insert
UniqueRefuses(coll, doc) ==
    \E d \in coll : d.userId = doc.userId /\ ("date" \in DOMAIN doc => d.date = doc.date)

\* await document.save() and the response: an insert of a new document, which
\* the unique index may refuse, or the update of the stored one
DocSave(r) ==
    /\ sreq[r].pc = "save"
    /\ LET q == sreq[r]
           doc == q.doc[1]
           isDaily == q.date # <<>>
           coll == IF isDaily THEN DOMAIN daily ELSE settings
           stored == Parent(q.userId, q.date)
           written == IF q.isNew THEN doc
                      ELSE Merge(CHOOSE d \in stored : TRUE, doc, q.modified)
           refused == IF q.isNew THEN UniqueRefuses(coll, doc) ELSE stored = {}
           after == IF refused THEN coll ELSE (coll \ stored) \cup {written}
       IN /\ sreq' = [sreq EXCEPT ![r] = DocSent(q, IF refused THEN ServerError ELSE q.reply)]
          /\ IF isDaily THEN daily' = SetToBag(after) /\ settings' = settings
             ELSE settings' = after /\ daily' = daily
    /\ UNCHANGED <<store, req, now, tz, sub, users, codes, issued, ureq, ids>>

\* the handler has returned: the slot is free
CloseDoc(r) ==
    /\ sreq[r].pc = "done"
    /\ sreq' = [sreq EXCEPT ![r] = IdleDoc]
    /\ UNCHANGED <<settings, daily, ids>>
    /\ UNCHANGED <<store, req, now, tz, sub, users, codes, issued, ureq>>

\* String.prototype.trim on the texts of the model
Trim(text) ==
    CASE text = " " -> ""
      [] text = " sell " -> "sell"
      [] OTHER -> text

\* the positions of the items of a list that satisfy a test
RECURSIVE KeepTitled(_)
KeepTitled(items) ==
    IF items = <<>> THEN <<>>
    ELSE (IF Trim(Head(items).title) # "" THEN <<Head(items)>> ELSE <<>>)
         \o KeepTitled(Tail(items))

\* items.map(item => ({title: item.title || '', content: item.content || ''}))
\* .filter(item => item.title.trim()), then cast by the schema (trim: true)
CleanItems(items) ==
    LET kept == KeepTitled(items)
    IN [i \in 1..Len(kept) |->
           [title |-> Trim(kept[i].title), content |-> Trim(kept[i].content)]]

\* list.id(id): the position of the item with this _id, or 0
ItemIndex(items, id) ==
    IF \E i \in 1..Len(items) : items[i].id = id
    THEN CHOOSE i \in 1..Len(items) : items[i].id = id
    ELSE 0

\* list.pull(id)
Pull(items, id) == SelectSeq(items, LAMBDA item : item.id # id)

\* the document to work on when findOne found none, and the _ids it takes
Fresh(u, date, first) ==
    IF date = <<>> THEN NewSettings(u, first) ELSE DailyDoc(u, date, <<>>, "")

FreshIds(date) == IF date = <<>> THEN Len(DEFAULT_HOMEWORK) + Len(DEFAULT_PLANS) ELSE 0

\* the step of a handler from the request to its save: the slot, and ids
Proceed(r, q, doc, isNew, modified, data, next) ==
    /\ next <= MaxIds
    /\ ids' = next
    /\ sreq' = [sreq EXCEPT ![r] =
           [q EXCEPT !.pc = "save", !.doc = <<doc>>, !.isNew = isNew,
                !.modified = modified, !.reply = Response(200, "ok", <<data>>)]]

\* the handler answers without a save
Reject(r, q, resp) == sreq' = [sreq EXCEPT ![r] = DocSent(q, resp)] /\ ids' = ids

\* PUT /settings/homework, PUT /settings/plans and PUT /daily/:date: the whole
\* list (and for a daily record the reflection) as the body gives them; an
\* absent field of the body is <<>>, a present one <<value>>
ListSave(r, u, date, list, body) ==
    /\ sreq[r].pc = "idle"
    /\ LET q == [IdleDoc EXCEPT !.op = "saveList", !.userId = u, !.date = date,
                     !.list = list]
           found == Parent(u, date)
           first == IF found = {} THEN ids + FreshIds(date) ELSE ids
           doc0 == IF found = {} THEN Fresh(u, date, ids) ELSE CHOOSE d \in found : TRUE
           hasList == body.items # <<>>
           hasText == date # <<>> /\ body.reflection # <<>>
           items == IF hasList THEN WithIds(CleanItems(body.items[1]), first) ELSE doc0[list]
           doc1 == [doc0 EXCEPT ![list] = items]
           doc2 == IF hasText THEN [doc1 EXCEPT !.reflection = Trim(body.reflection[1])]
                   ELSE doc1
       IN IF date = <<>> /\ ~hasList THEN Reject(r, q, Response(400, "bad-format", <<>>))
          ELSE IF date # <<>> /\ ~DateParamOk(date)
          THEN Reject(r, q, Response(400, "date-format", <<>>))
          ELSE Proceed(r, q, doc2, found = {},
                       (IF hasList THEN {list} ELSE {})
                       \cup (IF hasText THEN {"reflection"} ELSE {}),
                       [item |-> <<>>, items |-> items,
                        reflection |-> IF date # <<>> THEN <<doc2.reflection>> ELSE <<>>],
                       IF hasList THEN first + Len(items) ELSE first)
    /\ UNCHANGED <<settings, daily>>
    /\ UNCHANGED <<store, req, now, tz, sub, users, codes, issued, ureq>>

\* !title || !title.trim()
TitleMissing(title) == Trim(title) = ""

\* POST /settings/homework, POST /settings/plans and POST /daily/:date/plan
ItemAdd(r, u, date, list, body) ==
    /\ sreq[r].pc = "idle"
    /\ LET q == [IdleDoc EXCEPT !.op = "addItem", !.userId = u, !.date = date,
                     !.list = list]
           found == Parent(u, date)
           first == IF found = {} THEN ids + FreshIds(date) ELSE ids
           doc0 == IF found = {} THEN Fresh(u, date, ids) ELSE CHOOSE d \in found : TRUE
           newItem == [id |-> first, title |-> Trim(body.title),
                       content |-> Trim(body.content)]
           items == Append(doc0[list], newItem)
       IN IF date # <<>> /\ ~DateParamOk(date)
          THEN Reject(r, q, Response(400, "date-format", <<>>))
          ELSE IF TitleMissing(body.title)
          THEN Reject(r, q, Response(400, "title-required", <<>>))
          ELSE Proceed(r, q, [doc0 EXCEPT ![list] = items], found = {}, {list},
                       [item |-> <<newItem>>, items |-> items, reflection |-> <<>>],
                       first + 1)
    /\ UNCHANGED <<settings, daily>>
    /\ UNCHANGED <<store, req, now, tz, sub, users, codes, issued, ureq>>

\* an update or delete of an item that makes the parent when it finds none
MissingParentMade(found) == FALSE

\* if (!settings) / if (!record)
ParentMissing(found) == found = {}

\* the answers for a parent document or an item that does not exist
NotFound(what) == Response(404, what, <<>>)

\* PUT /settings/homework/:id, PUT /settings/plans/:id and
\* PUT /daily/:date/plan/:id
ItemEdit(r, u, date, list, id, body) ==
    /\ sreq[r].pc = "idle"
    /\ LET q == [IdleDoc EXCEPT !.op = "editItem", !.userId = u, !.date = date,
                     !.list = list, !.item = id]
           found == Parent(u, date)
           doc0 == IF found = {} THEN Fresh(u, date, ids) ELSE CHOOSE d \in found : TRUE
           i == ItemIndex(doc0[list], id)
           item == [id |-> id, title |-> Trim(body.title), content |-> Trim(body.content)]
           items == [doc0[list] EXCEPT ![i] = item]
       IN IF TitleMissing(body.title)
          THEN Reject(r, q, Response(400, "title-required", <<>>))
          ELSE IF ParentMissing(found) THEN Reject(r, q, NotFound("parent-missing"))
          ELSE IF i = 0 THEN Reject(r, q, NotFound("item-missing"))
          ELSE Proceed(r, q, [doc0 EXCEPT ![list] = items], found = {}, {list},
                       [item |-> <<item>>, items |-> items, reflection |-> <<>>], ids)
    /\ UNCHANGED <<settings, daily>>
    /\ UNCHANGED <<store, req, now, tz, sub, users, codes, issued, ureq>>

\* DELETE /settings/homework/:id, DELETE /settings/plans/:id and
\* DELETE /daily/:date/plan/:id
ItemDelete(r, u, date, list, id) ==
    /\ sreq[r].pc = "idle"
    /\ LET q == [IdleDoc EXCEPT !.op = "deleteItem", !.userId = u, !.date = date,
                     !.list = list, !.item = id]
           found == Parent(u, date)
           doc0 == IF found = {} THEN Fresh(u, date, ids) ELSE CHOOSE d \in found : TRUE
           items == Pull(doc0[list], id)
       IN IF ParentMissing(found) THEN Reject(r, q, NotFound("parent-missing"))
          ELSE IF ItemIndex(doc0[list], id) = 0 THEN Reject(r, q, NotFound("item-missing"))
          ELSE Proceed(r, q, [doc0 EXCEPT ![list] = items], found = {}, {list},
                       [item |-> <<>>, items |-> items, reflection |-> <<>>], ids)
    /\ UNCHANGED <<settings, daily>>
    /\ UNCHANGED <<store, req, now, tz, sub, users, codes, issued, ureq>>

(***************************************************************************)
(* SpecDocs: the requests of user 1 to the item routes, one at a time.  In  *)
(* one half of the behaviours the settings exist from the start (as after  *)
(* a first GET /settings) and the requests add to and save the settings;   *)
(* in the other no document exists and they add to and save the daily      *)
(* record of a date.  Updates and deletes of items go to both.             *)
(***************************************************************************)
\* the list whose items the requests add, update and delete one by one
ItemListOf(date) == IF date = <<>> THEN "tradingHomework" ELSE "tradingPlans"

\* the settings (no date) and a date
DocDates == {<<>>, AuthDate}

\* where the requests of a behaviour add and save
Targets == IF settings = {} THEN {AuthDate} ELSE {<<>>}

ItemBodies == {[title |-> "buy", content |-> ""], [title |-> " ", content |-> "x"]}

EditBodies == {[title |-> " sell ", content |-> "half"]}

\* the stored list again, as a client sends it back: without the identifiers
Resent(date) ==
    LET found == Parent(1, date)
    IN IF found = {} THEN <<>>
       ELSE [i \in 1..Len((CHOOSE d \in found : TRUE)[ItemListOf(date)]) |->
                [title |-> (CHOOSE d \in found : TRUE)[ItemListOf(date)][i].title,
                 content |-> (CHOOSE d \in found : TRUE)[ItemListOf(date)][i].content]]

\* a reflection alone, an empty list, and the list as it is stored
ListBodies(date) ==
    {[items |-> <<>>, reflection |-> <<" calm">>], [items |-> <<<<>>>>, reflection |-> <<>>],
     [items |-> <<Resent(date)>>, reflection |-> <<>>]}

\* the identifiers a client may name: those given out, and the next one
KnownIds == 1..ids

MaxItems == 2

\* the requests that make items stop when so many identifiers are given out
\* (not counting those of the settings that exist from the start)
WithinBudget == ids <= MaxItems + (IF settings = {} THEN 0 ELSE FreshIds(<<>>))

InitDocs ==
    /\ store = EmptyBag /\ daily = EmptyBag
    /\ \/ settings = {} /\ ids = 1
       \/ settings = {NewSettings(1, 1)} /\ ids = 1 + FreshIds(<<>>)
    /\ req = [r \in Slots |-> IdleReq]
    /\ ureq = [r \in UserSlots |-> IdleUser]
    /\ sreq = [r \in UserSlots |-> IdleDoc]
    /\ now = StartNow /\ sub = 0 /\ tz = "UTC"
    /\ users = {} /\ codes = <<>> /\ issued = {}

NextDocs ==
    \/ \E date \in Targets : \E body \in ListBodies(date) :
          WithinBudget /\ ListSave(1, 1, date, ItemListOf(date), body)
    \/ \E date \in Targets, body \in ItemBodies :
          WithinBudget /\ ItemAdd(1, 1, date, ItemListOf(date), body)
    \/ \E date \in DocDates, body \in EditBodies \cup ItemBodies, id \in KnownIds :
          ItemEdit(1, 1, date, ItemListOf(date), id, body)
    \/ \E date \in DocDates, id \in KnownIds :
          ItemDelete(1, 1, date, ItemListOf(date), id)
    \/ DocSave(1)
    \/ CloseDoc(1)

SpecDocs == InitDocs /\ [][NextDocs]_vars

(***************************************************************************)
(* SpecUpsert: two requests of user 1 at a time, GET /settings and the     *)
(* saves of a whole list (PUT /settings/homework, PUT /settings/plans, PUT *)
(* /daily/:date), from collections with or without the settings.           *)
(***************************************************************************)
\* the lists of a settings document, and the list of a daily record
ListsOf(date) == IF date = <<>> THEN {"tradingHomework", "tradingPlans"} ELSE {"tradingPlans"}

\* a settings list is saved empty, a daily record with one plan and a reflection
UpsertBodies(date) ==
    IF date = <<>>
    THEN {[items |-> <<<<>>>>, reflection |-> <<>>]}
    ELSE {[items |-> <<<<[title |-> "buy", content |-> ""]>>>>, reflection |-> <<" calm">>]}

NextUpsert ==
    \/ \E r \in UserSlots : SettingsGetLoad(r, 1)
    \/ \E r \in UserSlots, date \in DocDates : \E list \in ListsOf(date), body \in UpsertBodies(date) :
          ListSave(r, 1, date, list, body)
    \/ \E r \in UserSlots : DocSave(r)
    \/ \E r \in UserSlots : CloseDoc(r)

SpecUpsert == InitDocs /\ [][NextUpsert]_vars

\* a list without the identifiers of its items
Plain(items) ==
    [i \in 1..Len(items) |-> [title |-> items[i].title, content |-> items[i].content]]

\* the defaults of a list of the settings
DefaultsOf(list) == IF list = "tradingHomework" THEN DEFAULT_HOMEWORK ELSE DEFAULT_PLANS

\* GET /settings reads: the response (sent, or kept for the save) has exactly
\* the defaults where no document or an empty list was found, and the stored
\* list where one was; it is sent at once only when nothing is to be written
GetFillsDefaults(r) ==
    (sreq[r].pc = "idle" /\ sreq'[r].op = "getSettings" /\ sreq'[r].pc # "idle") =>
        LET found == FindSettings(settings, sreq'[r].userId)
            out == IF sreq'[r].pc = "save" THEN sreq'[r].reply ELSE sreq'[r].resp
        IN /\ out.code = 200
           /\ \A list \in ListsOf(<<>>) :
                 LET missing == found = {} \/ \A d \in found : d[list] = <<>>
                 IN /\ out.data[1][list] # <<>>
                    /\ missing => Plain(out.data[1][list]) = DefaultsOf(list)
                    /\ missing => sreq'[r].pc = "save"
                    /\ ~missing => \A d \in found : out.data[1][list] = d[list]

\* GET /settings writes: when the save is accepted, the document of the user
\* holds the lists the response has, for every list the handler made
GetPersistsDefaults(r) ==
    (sreq[r].op = "getSettings" /\ sreq[r].pc = "save" /\ sreq'[r].pc = "done"
        /\ sreq'[r].resp.code = 200) =>
        /\ \E d \in settings' : d.userId = sreq[r].userId
        /\ \A d \in settings' : d.userId = sreq[r].userId =>
              \A list \in ListsOf(<<>>) :
                 (sreq[r].isNew \/ list \in sreq[r].modified) =>
                     d[list] = sreq'[r].resp.data[1][list]

\* C21: GET /settings for a user without settings returns and persists exactly
\* the three default homework items and the three default plans; an empty
\* stored list is replaced by its defaults, a list with items is returned as
\* it is stored; every GET /settings answered with code 200 has both lists
\* with items.
C21_SettingsDefaults ==
    [][\A r \in UserSlots : GetFillsDefaults(r) /\ GetPersistsDefaults(r)]_vars

\* a GET /settings has answered with homework made anew next to plans that
\* were stored before, and the document holds what the response has
C21_Witness ==
    \E r \in UserSlots :
        /\ sreq[r].op = "getSettings" /\ sreq[r].pc = "done" /\ sreq[r].resp.code = 200
        /\ LET data == sreq[r].resp.data[1]
           IN /\ Plain(data.tradingHomework) = DEFAULT_HOMEWORK
              /\ data.tradingHomework[1].id > data.tradingPlans[1].id
              /\ \E d \in settings : /\ d.tradingHomework = data.tradingHomework
                                     /\ d.tradingPlans = data.tradingPlans

\* the parent of the request in a slot does not exist, or no item of its list
\* has the id of the request
Absent(q) ==
    LET found == Parent(q.userId, q.date)
    IN found = {} \/ \A d \in found : ItemIndex(d[q.list], q.item) = 0

\* a request to update or delete an item is taken up
ItemRequested(r) == sreq[r].pc = "idle" /\ sreq'[r].op \in {"editItem", "deleteItem"}

\* the request is answered, nothing is written and nothing is left to write
AnsweredUntouched(r) ==
    /\ sreq'[r].pc = "done"
    /\ settings' = settings /\ daily' = daily

\* the original statement of C22: an update or delete of an item whose parent
\* or whose id does not exist is answered 404 and leaves the documents as
\* they are, whatever the update carries.
C22_AbsentItemIs404 ==
    [][\A r \in UserSlots :
          (ItemRequested(r) /\ Absent(sreq'[r])) =>
              AnsweredUntouched(r) /\ sreq'[r].resp.code = 404]_vars

\* C22: a delete, or an update that carries a title, of a settings item or of
\* a plan of a daily record whose parent document does not exist, or whose id
\* is not in the list, is answered with code 404; an update without a title
\* is answered 400 before the document is looked up; in both cases the
\* documents are unchanged, none is created and nothing is saved.
C22_AbsentItemRefused ==
    [][\A r \in UserSlots :
          (ItemRequested(r) /\ Absent(sreq'[r])) =>
              /\ AnsweredUntouched(r)
              /\ \/ sreq'[r].resp.code = 404
                 \/ sreq'[r].op = "editItem"
                       /\ sreq'[r].resp = Response(400, "title-required", <<>>)]_vars

\* an update or delete was answered 404 for an id that is not in a list that
\* has items
C22_Witness ==
    /\ sreq[1].op \in {"editItem", "deleteItem"} /\ sreq[1].pc = "done"
    /\ sreq[1].resp = NotFound("item-missing")
    /\ \E d \in Parent(1, sreq[1].date) : d[ItemListOf(sreq[1].date)] # <<>>

\* the stored list of items of the settings or of the daily record of user 1
StoredItems(date) ==
    LET found == Parent(1, date)
    IN IF found = {} THEN <<>> ELSE (CHOOSE d \in found : TRUE)[ItemListOf(date)]

\* the save of this step is the delete of the item, or the save of a whole
\* list that does not have the item in it
GivenUp(date, item) ==
    /\ sreq[1].pc = "save" /\ sreq[1].date = date
    /\ \/ sreq[1].op = "deleteItem" /\ sreq[1].item = item.id
       \/ /\ sreq[1].op = "saveList"
          /\ \A j \in 1..Len(sreq[1].doc[1][sreq[1].list]) :
                Plain(<<sreq[1].doc[1][sreq[1].list][j]>>) # Plain(<<item>>)

\* C26: the identifier of a stored item designates an item of the list after
\* every operation on the document (adding items, updating or deleting other
\* items, saving the reflection, saving the whole list with the item in it),
\* until the item is deleted or a list without it is saved.
C26_ItemIdsStable ==
    [][\A date \in DocDates :
          \A i \in 1..Len(StoredItems(date)) :
             \/ GivenUp(date, StoredItems(date)[i])
             \/ \E j \in 1..Len(StoredItems(date)') :
                   StoredItems(date)'[j].id = StoredItems(date)[i].id]_vars

\* one document at most for the settings of user 1 and for each of the dates
OneDocumentPerKey ==
    /\ Cardinality(FindSettings(settings, 1)) <= 1
    /\ \A date \in DocDates \ {<<>>} : Count(FindOne(daily, 1, date)) <= 1

\* C27: two requests of a user that concurrently make the first write for a key
\* (the settings of the user, the daily record of a date) both complete with
\* code 200, and one document exists for the key afterwards, holding the data
\* of one of them.
C27_FirstWritesBothSucceed ==
    [][\A r \in UserSlots :
          (sreq[r].pc = "save" /\ sreq[r].isNew /\ sreq'[r].pc = "done") =>
              /\ sreq'[r].resp.code = 200
              /\ OneDocumentPerKey'
              /\ sreq[r].doc[1] \in (IF sreq[r].date = <<>> THEN settings'
                                     ELSE DOMAIN daily')]_vars

(***************************************************************************)
(* SpecOwners: two users side by side.  User 1 has a check-in and a daily   *)
(* record with a plan; slot u of either kind runs the requests of user u:  *)
(* check-ins and the reads of the check-in and daily routes, GET /settings *)
(* of user 2, added plans, and updates and deletes that name any           *)
(* identifier given out so far, those of the other user included.          *)
(***************************************************************************)
OwnerPlan == [id |-> 1, title |-> "plan", content |-> "wait"]

OwnerBodies == {BodyOf("completed", <<>>)}

InitOwners ==
    /\ store = SetToBag({DocOf(1, AuthDate, "incomplete")})
    /\ daily = SetToBag({DailyDoc(1, AuthDate, <<OwnerPlan>>, "patience")})
    /\ settings = {} /\ ids = OwnerPlan.id + 1
    /\ req = [r \in Slots |-> IdleReq]
    /\ sreq = [r \in UserSlots |-> IdleDoc]
    /\ now = StartNow /\ sub = 0 /\ tz = "UTC"
    /\ users = {} /\ codes = <<>> /\ issued = {} /\ ureq = <<>>

\* the identifiers the requests name: that of the plan of user 1, and the
\* first and the last given out since
NamedIds == {OwnerPlan.id, OwnerPlan.id + 1, ids - 1}

\* a user waits for the response of a request before sending the next
Free(u) == req[u].pc = "idle" /\ sreq[u].pc = "idle"

NextOwners ==
    \/ \E u \in Users, body \in OwnerBodies : Free(u) /\ CheckInBegin(u, u, body)
    \/ \E r \in Slots : CheckInFind(r)
    \/ \E r \in Slots : CheckInSave(r)
    \/ \E u \in Users : Free(u) /\ ListMonth(u, u, [year |-> 0, month |-> 0])
    \/ \E u \in Users : Free(u) /\ TodayStatus(u, u)
    \/ \E u \in Users : Free(u) /\ StatsFindMonthly(u, u)
    \/ \E r \in Slots : StatsFindAll(r)
    \/ \E u \in Users : Free(u) /\ DailyGet(u, u, AuthDate)
    \/ \E r \in Slots : Close(r)
    \/ Free(2) /\ SettingsGetLoad(2, 2)
    \/ \E body \in ItemBodies :
          Free(2) /\ WithinBudget /\ ItemAdd(2, 2, AuthDate, "tradingPlans", body)
    \/ \E u \in Users, date \in DocDates, id \in NamedIds, body \in EditBodies :
          Free(u) /\ ItemEdit(u, u, date, ItemListOf(date), id, body)
    \/ \E date \in DocDates, id \in NamedIds :
          Free(2) /\ ItemDelete(2, 2, date, ItemListOf(date), id)
    \/ \E r \in UserSlots : DocSave(r)
    \/ \E r \in UserSlots : CloseDoc(r)

SpecOwners == InitOwners /\ [][NextOwners]_vars

\* the documents of a user: check-ins, daily records and settings
Owned(u) == <<FindByUser(store, u), FindByUser(daily, u), FindSettings(settings, u)>>

\* the users whose request takes this step: the user of every slot it changes
Actors ==
    ({req[r].userId : r \in {x \in Slots : req'[x] # req[x]}}
        \cup {req'[r].userId : r \in {x \in Slots : req'[x] # req[x]}}
        \cup {sreq[r].userId : r \in {x \in UserSlots : sreq'[x] # sreq[x]}}
        \cup {sreq'[r].userId : r \in {x \in UserSlots : sreq'[x] # sreq[x]}}) \ {0}

\* a step of a request changes the documents of its user alone
WritesOwnOnly ==
    \A u \in Users : (Actors # {} /\ u \notin Actors) => Owned(u)' = Owned(u)

\* the response of a read is the response over the documents of its user alone
ReadsOwnOnly ==
    /\ \A r \in Slots :
          (req[r].pc = "idle" /\ req'[r].pc # "idle") =>
             LET u == req'[r].userId
                 op == req'[r].op
             IN /\ op = "list" =>
                      req'[r].resp = ListMonthResponse(FindByUser(store, u), u,
                                         [year |-> 0, month |-> 0], now, tz)
                /\ op = "today" =>
                      req'[r].resp = TodayResponse(FindByUser(store, u), u, now)
                /\ op = "stats" =>
                      req'[r].monthlyRecords =
                          StatsMonthlyRecords(FindByUser(store, u), u, now, tz)
                /\ op = "daily" =>
                      req'[r].resp = DailyGetResponse(FindByUser(daily, u), u,
                                         req'[r].checkInDate)
    /\ \A r \in Slots :
          (req[r].op = "stats" /\ req[r].pc = "all" /\ req'[r].pc = "done") =>
             req'[r].resp = StatsResponse(req[r].monthlyRecords,
                                FindByUser(store, req[r].userId), req[r].at, tz)
    /\ \A r \in UserSlots :
          (sreq[r].pc = "idle" /\ sreq'[r].op = "getSettings") =>
             LET own == FindSettings(settings, sreq'[r].userId)
                 out == IF sreq'[r].pc = "save" THEN sreq'[r].reply ELSE sreq'[r].resp
             IN out.data = <<SettingsView(IF own = {} THEN NewSettings(sreq'[r].userId, ids)
                                          ELSE Backfill(CHOOSE d \in own : TRUE, ids).doc)>>

\* C23: every step of a check-in, daily-record or settings request leaves the
\* documents of every user other than the caller as they are, and the
\* response of every read is the one computed from the caller's documents
\* alone: no request of one user changes an entity of another or what the
\* other reads.
C23_OwnDocumentsOnly == [][WritesOwnOnly /\ ReadsOwnOnly]_vars

\* user 2 has named the identifier of the plan of user 1 in an update of its
\* own daily record, which has a plan, and was answered 404; the plan of user
\* 1 is as it was
C23_Witness ==
    /\ sreq[2].op = "editItem" /\ sreq[2].pc = "done" /\ sreq[2].item = OwnerPlan.id
    /\ sreq[2].date = AuthDate /\ sreq[2].resp = NotFound("item-missing")
    /\ \E d \in DOMAIN daily : d.userId = 2 /\ d.tradingPlans # <<>>
    /\ \E d \in DOMAIN daily : d.userId = 1 /\ d.tradingPlans = <<OwnerPlan>>

\* no two users with one phone, one username or one id
UsersDistinct ==
    \A x, y \in users :
        x # y => x.phone # y.phone /\ x.username # y.username /\ x.id # y.id

\* another user than the caller holds the name the request asks for
HeldByOther(q) == \E x \in users : x.id # q.userId /\ x.username = q.username

\* the caller holds the name the request asks for
HeldBySelf(q) == \E x \in users : x.id = q.userId /\ x.username = q.username

\* C25: after every step of register and changeUsername, interleaved as they
\* may be, no two users have the same phone and no two the same username; a
\* changeUsername that looks up or writes a name while another user holds it
\* fails and leaves every user as it is; a changeUsername to the name the
\* caller holds passes the lookup and succeeds.
C25_UsersStayDistinct ==
    [][/\ UsersDistinct'
       /\ \A r \in UserSlots :
             (ureq[r].op = "username" /\ ureq[r].pc \in {"find", "update"}
                 /\ ureq'[r] # ureq[r]) =>
                /\ HeldByOther(ureq[r]) =>
                      /\ ureq'[r].pc = "done" /\ ureq'[r].resp.code \in {400, 500}
                      /\ users' = users
                /\ HeldBySelf(ureq[r]) =>
                      /\ ureq[r].pc = "find" => ureq'[r].pc = "update"
                      /\ ureq[r].pc = "update" =>
                            /\ ureq'[r].resp.code = 200
                            /\ ureq'[r].resp.data[1].user.username = ureq[r].username
                            /\ users' = users]_vars

\* two users; one changeUsername refused for a name the other user holds, and
\* one answered 200 with the name its caller holds
C25_Witness ==
    /\ Cardinality(users) = 2
    /\ \E r1, r2 \in UserSlots :
          /\ ureq[r1].op = "username" /\ ureq[r1].resp.message = "username-taken"
          /\ ureq[r2].op = "username" /\ ureq[r2].resp.code = 200
          /\ \E x \in users : /\ x.id = ureq[r2].userId /\ x.id # ureq[r1].userId
                              /\ UserView(x) = ureq[r2].resp.data[1].user

\* every stored check-in is stored after the step, field by field as it was,
\* in as many copies
CheckInsKept == \A d \in DOMAIN store : d \in DOMAIN store' /\ store'[d] = store[d]

\* the overall total of an answer of computeStats is the number of check-ins
\* of the caller at that moment
TotalIsCount ==
    \A r \in Slots :
        (req[r].op = "stats" /\ req[r].pc = "all" /\ req'[r].pc = "done") =>
            req'[r].resp.data[1].overall.total = Count(FindByUser(store, req[r].userId))

\* C28: a check-in, once stored, stays stored with the same user, date, kind,
\* isCompleted, tasks and note through every operation of every route; the
\* number of check-ins of a user never goes down, and overall.total of
\* computeStats is that number, so it never decreases.
C28_CheckInsImmutable ==
    [][/\ CheckInsKept
       /\ \A u \in Users : Count(FindByUser(store, u))' >= Count(FindByUser(store, u))
       /\ TotalIsCount]_vars

\* user 2 has checked in and reads a total of 1 while the check-in user 1 had
\* from the start is stored as it was
C28_Witness ==
    /\ req[2].op = "stats" /\ req[2].pc = "done"
    /\ req[2].resp.data[1].overall.total = 1
    /\ DocOf(1, AuthDate, "incomplete") \in DOMAIN store
    /\ Count(store) = 2

(***************************************************************************)
(* SpecToday: user 1 checks in without a date and reads at once, at 20:00Z *)
(* of the last day but one and of the last day of October 2024, on servers *)
(* in each of the zones.  The clock stands still: the reads are those of   *)
(* the instant of the check-in.                                            *)
(***************************************************************************)
TodayInstants == {StartNow, StartNow + 24}

TodayBodies == {BodyOf(type, <<>>) : type \in CheckInTypes}

InitToday ==
    /\ store = EmptyBag
    /\ req = [r \in Slots |-> IdleReq]
    /\ now \in TodayInstants
    /\ tz \in Zones
    /\ OthersEmpty

NextToday ==
    \/ \E r \in Slots, body \in TodayBodies : CheckInBegin(r, 1, body)
    \/ \E r \in Slots : CheckInFind(r)
    \/ \E r \in Slots : CheckInSave(r)
    \/ \E r \in Slots : ListMonth(r, 1, [year |-> 0, month |-> 0])
    \/ \E r \in Slots : TodayStatus(r, 1)
    \/ \E r \in Slots : StatsFindMonthly(r, 1)
    \/ \E r \in Slots : StatsFindAll(r)
    \/ \E r \in Slots : Close(r)

SpecToday == InitToday /\ [][NextToday]_vars

\* the check-in the user made without a date at this instant is stored
CheckedInNow(u) == DOMAIN FindOne(store, u, CheckInDateOf(<<>>, now)) # {}

\* C29: whatever the offset of the server's clock, once a check-in made
\* without a date is stored, todayStatus at that instant reports it, the
\* streak of computeStats is at least 1, and the monthly figures of
\* computeStats and listMonth without parameters include it.
C29_OneCurrentDate ==
    [][\A r \in Slots :
          (req[r].pc = "idle" /\ req'[r].pc # "idle" /\ CheckedInNow(req'[r].userId)) =>
             /\ req'[r].op = "today" => req'[r].resp.data[1].hasCheckedIn
             /\ req'[r].op = "list" => req'[r].resp.data[1].total >= 1
             /\ req'[r].op = "stats" =>
                   /\ Count(req'[r].monthlyRecords) >= 1
                   /\ Streak(SortByDate(FindByUser(store, req'[r].userId), FALSE),
                             now, tz) >= 1]_vars

\* a register request with a code is taken up: its checks and the verification
RegisterVerifies(r) ==
    /\ ureq[r].pc = "idle" /\ ureq'[r].op = "register"
    /\ ureq'[r].flow \in {"code", "phone"}

\* where a register request stands after the verification
AfterVerification == {"findUsername", "findPhone", "phoneTaken", "nameTaken", "save"}

\* C30: in the register flows with a code, the step that verifies the code
\* removes it, before any lookup of the phone or the username; the later
\* steps, the refusals for a duplicate among them, leave the Map as it is, so
\* a register for a phone without a stored code is refused at the
\* verification; a register with a wrong code leaves the stored code in the
\* Map.
C30_CodeSpentBeforeLookups ==
    [][\A r \in UserSlots :
          /\ RegisterVerifies(r) =>
                LET p == ureq'[r].phone
                IN /\ ureq'[r].pc # "done" =>
                         /\ ureq'[r].pc \in {"findUsername", "phoneTaken"}
                         /\ p \in DOMAIN codes /\ codes[p].code = ureq'[r].code
                         /\ p \notin DOMAIN codes'
                         /\ users' = users
                   /\ (PhoneOk(p) /\ p \notin DOMAIN codes) =>
                         /\ ureq'[r].pc = "done"
                         /\ ureq'[r].resp = Response(400, "code-not-requested", <<>>)
                   /\ ureq'[r].resp.message = "code-wrong" => codes' = codes /\ p \in DOMAIN codes
          /\ (ureq[r].op = "register" /\ ureq[r].pc \in AfterVerification
                 /\ ureq'[r] # ureq[r]) => codes' = codes
          /\ (ureq'[r].op = "register" /\ ureq'[r] # ureq[r]
                 /\ ureq'[r].resp.message \in {"username-taken", "phone-registered"})
             => ureq[r].pc \in AfterVerification]_vars

\* a register with the right code was refused for its phone, which is
\* registered, and the next register for the phone was told that no code is
\* stored
C30_Witness ==
    \E r1, r2 \in UserSlots :
        /\ ureq[r1].op = "register" /\ ureq[r1].resp.message = "phone-registered"
        /\ ureq[r2].op = "register" /\ ureq[r2].resp.message = "code-not-requested"
        /\ ureq[r1].phone = ureq[r2].phone
        /\ ureq[r1].flow # ureq[r2].flow
        /\ codes = <<>> /\ users # {}

(***************************************************************************)
(* SpecLive: one request at a time on the user routes (send-code and the   *)
(* phone-only register of a third phone) and one on the check-in routes    *)
(* (check-in and computeStats of user 1, as the clock advances by a day),  *)
(* with none, one or both of the generated usernames held by users that    *)
(* registered them.  Every await returns (weak fairness of the             *)
(* continuation of each request), and the generator does not avoid an      *)
(* unused name for ever (weak fairness of the draw of an unused name).     *)
(***************************************************************************)
PhoneC == <<49, 53, 48>> \o [i \in 1..8 |-> Digit(0)]

\* a user that registered with this generated username
Holder(id, name, phone) ==
    [id |-> id, username |-> name, phone |-> phone,
     password |-> BcryptHash("secret1", CHOOSE salt \in Salts : TRUE)]

Holders ==
    {{}, {Holder(1, "user10000000", PhoneA)},
     {Holder(1, "user10000000", PhoneA), Holder(2, "user99999999", PhoneB)}}

LiveBodies == {[phone |-> PhoneC, code |-> "111111"]}

InitLive ==
    /\ store = EmptyBag /\ daily = EmptyBag
    /\ req = [r \in Slots |-> IdleReq]
    /\ ureq = [r \in UserSlots |-> IdleUser]
    /\ now = StartNow /\ sub = 0 /\ tz = "UTC"
    /\ users \in Holders /\ codes = <<>> /\ issued = {}
    /\ NoDocs

\* the generator draws a name that no user holds
DrawUnused(r) ==
    \E name \in GeneratedNames :
        FindUserByName(users, name) = {} /\ PhoneRegisterFindName(r, name)

NextLive ==
    \/ \E body \in LiveBodies : SendCodeBegin(1, [phone |-> body.phone], body.code)
    \/ \E ok \in BOOLEAN : SendCodeReply(1, ok)
    \/ \E body \in LiveBodies : PhoneRegisterBegin(1, body)
    \/ \E name \in GeneratedNames : PhoneRegisterFindPhone(1, name)
    \/ \E name \in GeneratedNames : PhoneRegisterFindName(1, name)
    \/ \E salt \in Salts : RegisterSave(1, salt)
    \/ CloseUser(1)
    \/ \E body \in TodayBodies : CheckInBegin(1, 1, body)
    \/ CheckInFind(1)
    \/ CheckInSave(1)
    \/ StatsFindMonthly(1, 1)
    \/ StatsFindAll(1)
    \/ Close(1)
    \/ Tick(StartNow + 24 * MaxAhead)

\* the continuation of the request on the user routes, after an await
UserContinues ==
    \/ \E ok \in BOOLEAN : SendCodeReply(1, ok)
    \/ \E name \in GeneratedNames : PhoneRegisterFindPhone(1, name)
    \/ \E name \in GeneratedNames : PhoneRegisterFindName(1, name)
    \/ \E salt \in Salts : RegisterSave(1, salt)

\* the answer of the stats handler is pending
StatsPending == req[1].op = "stats" /\ req[1].pc = "all"

\* WF_vars(StatsFindAll(1)) written out: the step is enabled exactly when
\* StatsPending holds (it always changes req), and the walk over the dates
\* is evaluated on the steps taken rather than under ENABLED
StatsFair == []<>(~StatsPending) \/ []<><<StatsFindAll(1)>>_vars

\* the event loop resumes every handler whose awaited store call returned;
\* a generated name that nobody holds is drawn sooner or later
FairLive ==
    /\ WF_vars(UserContinues)
    /\ WF_vars(DrawUnused(1))
    /\ WF_vars(CheckInFind(1))
    /\ WF_vars(CheckInSave(1))
    /\ StatsFair

SpecLive == InitLive /\ [][NextLive]_vars /\ FairLive

\* the codes of the response envelope
EnvelopeCodes == {200, 400, 401, 404, 500}

\* C24: every request that a handler has taken up is answered, with one
\* response of the envelope {code, message, data}: computeStats with its
\* streak walk, and the phone-only register with its loop over generated
\* usernames.
C24_EveryRequestCompletes ==
    /\ [](/\ req[1].pc = "done" => req[1].resp.code \in EnvelopeCodes
          /\ ureq[1].pc = "done" => ureq[1].resp.code \in EnvelopeCodes)
    /\ (req[1].pc \notin {"idle", "done"}) ~> (req[1].pc = "done")
    /\ (ureq[1].pc \notin {"idle", "done"}) ~> (ureq[1].pc = "done")

====
